---- MODULE Spec2Model ----
(***************************************************************************)
(* Verification model of the AKRIN chatbot backend.                        *)
(*                                                                         *)
(*   SpecWS      the WebSocket ConnectionManager and the customer / agent  *)
(*               endpoints (src/src/api/websocket.py)                      *)
(*   SpecCache   the in-memory LRU / TTL cache                              *)
(*               (src/src/core/memory_cache.py, InMemoryCache)             *)
(*   SpecRL      the rate limiter on the singleton cache                   *)
(*               (src/src/core/memory_cache.py, RateLimiter)               *)
(*   SpecNLP     the NLP engine and its dialogue manager, as the chat      *)
(*               router drives it (src/src/core/nlp_engine.py)             *)
(*   SpecHS      DialogueManager.should_handoff on arbitrary states        *)
(*   SpecChat    the chat router on its NLP engine                         *)
(*               (src/src/api/routers/chat.py)                             *)
(*   SpecRouters the handlers of the knowledge and admin routers, which    *)
(*               answer from the request alone (src/src/api/routers/)      *)
(*   SpecGateway the customer WebSocket endpoint handling frames on a      *)
(*               reachable ConnectionManager (src/src/api/websocket.py)    *)
(*   SpecRAG     EnhancedRAG.process (src/src/knowledge/rag_module.py)     *)
(*   SpecHealth  the readiness probe (src/src/api/routers/health.py)       *)
(*   SpecDB      add_knowledge_article on the SQLite and PostgreSQL        *)
(*               backends (src/src/core/sqlite_db.py, postgres_db.py)      *)
(*   SpecNLU     IntentRecognizer.process on character strings             *)
(*               (src/src/core/nlp_engine.py)                              *)
(*   SpecNER     EntityExtractor.process (src/src/core/nlp_engine.py)      *)
(*   SpecDBI     initialize() of a storage instance under concurrent calls *)
(*               (src/src/core/sqlite_db.py, postgres_db.py)               *)
(*   SpecSockets the receive loops of the customer sockets                 *)
(*               (src/src/api/websocket.py)                                *)
(*   SpecVal     ResponseValidator.validate (src/src/knowledge/rag_module.py)*)
(*   SpecSweeper start() / stop() of the cache's background sweep          *)
(*               (src/src/core/memory_cache.py)                            *)
(*   SpecDesk    agents accepting and transferring customers               *)
(*               (src/src/api/websocket.py)                                *)
(*                                                                         *)
(* Every specification constrains all variables of the module; the         *)
(* variables of the components a specification does not exercise stay at   *)
(* their initial value.  Variables marked "history" record what happened   *)
(* and are read by the properties only.                                    *)
(***************************************************************************)
EXTENDS Integers, Sequences, FiniteSets, TLC

None == "None"

(***************************************************************************)
(* Bounds of the model.                                                    *)
(***************************************************************************)
MaxQueue == 3
MaxSize == 2
MaxTime == 2
TTLSeconds == 1
MaxRequests == 3
MaxWindow == 1
MaxCalls == 2
MaxTurns == 3
MaxTurnCount == 12
MaxFrames == 2
MaxWords == 2
MaxTokens == 3
MaxInitCalls == 4
MaxResponseWords == 4
MaxSweepTasks == 3

Sessions == {"s1", "s2"}
Agents == {"a1", "a2"}

VARIABLES
    active_connections,   \* websocket.py:25  session ids with a registered customer socket
    agent_connections,    \* websocket.py:27  agent ids with a registered socket, in dict order
    session_agent_map,    \* websocket.py:29  <<[session, agent]>> in dict (insertion) order
    waiting_queue,        \* websocket.py:31  FIFO of queue entries
    put_tasks,            \* websocket.py:83  created, not yet run, tasks waiting_queue.put(session)
    agent_handler,        \* agents whose websocket_agent_endpoint loop is running
    agent_gone,           \* agents whose peer has dropped, the handler has not seen it yet
    ws_ev                 \* the last endpoint step taken (history)

wsVars == <<active_connections, agent_connections, session_agent_map, waiting_queue,
            put_tasks, agent_handler, agent_gone, ws_ev>>

VARIABLES
    cache,                \* memory_cache.py:39  OrderedDict as a sequence of items, oldest first
    max_size,             \* memory_cache.py:40
    now,                  \* the clock datetime.utcnow() reads, in seconds
    recency,              \* history: keys by their last successful get / set, oldest first
    cache_ev              \* the last cache operation and its outcome (history)

cacheVars == <<cache, max_size, now, recency, cache_ev>>

VARIABLES
    max_requests,         \* memory_cache.py:181  the limit the callers of is_allowed pass
    window_seconds,       \* memory_cache.py:182  the window the callers of is_allowed pass
    rl_hist,              \* history: per identifier, the results of the calls of its
                          \* current window (a call that finds no counter starts one)
    window_start          \* history: per identifier, the time of the call that started
                          \* its current window (NoTime before the first)

rlVars == <<max_requests, window_seconds, rl_hist, window_start>>

VARIABLES
    sessions,             \* nlp_engine.py:153  DialogueManager.sessions
    nlp_calls,            \* process_message calls suspended at asyncio.gather, oldest first
    n_done,               \* history: per session, calls completed since it was last cleared
    last_intent,          \* history: per session, the intent of the last completed call
    cleared               \* history: clear_session(s) returned and no call for s began since

nlpVars == <<sessions, nlp_calls, n_done, last_intent, cleared>>

VARIABLES
    hs_state,             \* the DialogueState handed to should_handoff
    hs_called,            \* whether should_handoff has returned
    hs_result             \* what it returned

hsVars == <<hs_state, hs_called, hs_result>>

VARIABLES
    http_ev               \* the last HTTP request a router handler answered, and its reply

apiVars == <<http_ev>>

VARIABLES
    transcripts,          \* websocket.py:195  per session, the exchanges in the session store
    frame_ev              \* the last customer frame the gateway took up, and its route

gwVars == <<transcripts, frame_ev>>

VARIABLES
    rag                   \* one call of EnhancedRAG.process: its position, the values
                          \* the stages returned, the stages run, and the result

ragVars == <<rag>>

VARIABLES
    health                \* one GET /ready: what each probe meets, the probes that
                          \* have finished with their results, and the reply

healthVars == <<health>>

VARIABLES
    db                    \* a storage backend: which one, the rows of its table
                          \* knowledge_articles, its clock, and the last call (history)

dbVars == <<db>>

VARIABLES
    nlu                   \* one call of IntentRecognizer.process: the text, whether it
                          \* has returned, and the (intent, confidence) it returned

nluVars == <<nlu>>

VARIABLES
    ner                   \* one call of EntityExtractor.process: the text, whether it
                          \* has returned, and the entities it returned

nerVars == <<ner>>

VARIABLES
    dbi                   \* a storage instance under initialize(): _initialized, each call's
                          \* position, and how often the pool and the schema were created

dbiVars == <<dbi>>

VARIABLES
    sockets               \* the customer sockets on /ws/chat/{session_id}: per socket its
                          \* session id and its handler's position; active_connections as a map

socketVars == <<sockets>>

VARIABLES
    val                   \* one call of ResponseValidator.validate: the response and whether
                          \* there are source documents, the checks run, and what it returned

valVars == <<val>>

VARIABLES
    sweeper               \* the sweep task of a cache: _cleanup_task, the sweep tasks that
                          \* run, the stop() calls suspended on a task, an expired item

sweeperVars == <<sweeper>>

VARIABLES
    desk                  \* a ConnectionManager with two agents at work: the manager state,
                          \* the handoffs requested, and the last get_available_agents result

deskVars == <<desk>>

\* the components that are driven through single calls
restVars == <<ragVars, healthVars, dbVars, nluVars, nerVars, dbiVars, socketVars, valVars, sweeperVars, deskVars>>

vars == <<wsVars, cacheVars, rlVars, nlpVars, hsVars, apiVars, gwVars, restVars>>

\* what the steps of one component leave alone
notWS == <<cacheVars, rlVars, nlpVars, hsVars, apiVars, gwVars, restVars>>

notCache == <<wsVars, rlVars, nlpVars, hsVars, apiVars, gwVars, restVars>>

notRL == <<wsVars, nlpVars, hsVars, apiVars, gwVars, restVars>>

notNLP == <<wsVars, cacheVars, rlVars, hsVars, apiVars, gwVars, restVars>>

notHS == <<wsVars, cacheVars, rlVars, nlpVars, apiVars, gwVars, restVars>>

(***************************************************************************)
(* Sequence helpers.                                                       *)
(***************************************************************************)
SeqToSet(s) == {s[i] : i \in 1..Len(s)}

SeqRemove(s, x) == SelectSeq(s, LAMBDA e : e # x)

(***************************************************************************)
(* Python dict session_agent_map as a sequence of items in insertion       *)
(* order: assigning an existing key keeps its place, a new key goes last.  *)
(***************************************************************************)
MapSessions(sam) == {sam[i].session : i \in 1..Len(sam)}

MapAgent(sam, s) ==
    IF s \in MapSessions(sam)
    THEN sam[CHOOSE i \in 1..Len(sam) : sam[i].session = s].agent
    ELSE None

MapSet(sam, s, a) ==
    IF s \in MapSessions(sam)
    THEN [i \in 1..Len(sam) |->
            IF sam[i].session = s THEN [session |-> s, agent |-> a] ELSE sam[i]]
    ELSE Append(sam, [session |-> s, agent |-> a])

MapDel(sam, s) == SelectSeq(sam, LAMBDA e : e.session # s)

\* the sessions assigned to agent a, in dict order (websocket.py:75-79)
SessionsOfAgent(sam, a) ==
    LET mine == SelectSeq(sam, LAMBDA e : e.agent = a)
    IN  [i \in 1..Len(mine) |-> mine[i].session]

(***************************************************************************)
(* Queue entries.  request_human_handoff puts a dict carrying the session  *)
(* id; disconnect_agent puts the bare session id string.                   *)
(***************************************************************************)
HandoffEntry(s) == [kind |-> "dict", session_id |-> s]

RequeuedEntry(s) == [kind |-> "str", session_id |-> s]

(***************************************************************************)
(* The manager's mutable state as one record, so that the methods compose. *)
(***************************************************************************)
Mgr ==
    [ac  |-> active_connections,
     agc |-> agent_connections,
     sam |-> session_agent_map,
     wq  |-> waiting_queue,
     pt  |-> put_tasks]

MgrBecomes(m) ==
    /\ active_connections' = m.ac
    /\ agent_connections' = m.agc
    /\ session_agent_map' = m.sam
    /\ waiting_queue' = m.wq
    /\ put_tasks' = m.pt

\* ConnectionManager.disconnect
disconnect(m, s) ==
    IF s \in m.ac
    THEN [m EXCEPT !.ac = @ \ {s}, !.sam = MapDel(@, s)]
    ELSE m

\* a disconnect_agent that unassigns the sessions and forgets to re-enqueue the last
disconnect_agent_loses_one(m, a) ==
    IF a \in SeqToSet(m.agc)
    THEN [m EXCEPT !.agc = SeqRemove(@, a),
                   !.sam = SelectSeq(@, LAMBDA e : e.agent # a),
                   !.pt = @ \o (IF SessionsOfAgent(m.sam, a) = <<>> THEN <<>>
                                ELSE SubSeq(SessionsOfAgent(m.sam, a), 1,
                                            Len(SessionsOfAgent(m.sam, a)) - 1))]
    ELSE m

\* ConnectionManager.disconnect_agent: the puts are created as tasks and run later
disconnect_agent(m, a) ==
    IF a \in SeqToSet(m.agc)
    THEN [m EXCEPT !.agc = SeqRemove(@, a),
                   !.sam = SelectSeq(@, LAMBDA e : e.agent # a),
                   !.pt = @ \o SessionsOfAgent(m.sam, a)]
    ELSE m

\* ConnectionManager.assign_agent_to_session (the notifications change no state)
assign_agent_to_session(m, a, s) == [m EXCEPT !.sam = MapSet(@, s, a)]

\* ConnectionManager.broadcast_to_agents: `failed` are the agents whose send raises
RECURSIVE DisconnectAll(_, _)
DisconnectAll(m, list) ==
    IF list = <<>> THEN m
    ELSE DisconnectAll(disconnect_agent(m, Head(list)), Tail(list))

broadcast_to_agents(m, failed) ==
    DisconnectAll(m, SelectSeq(m.agc, LAMBDA a : a \in failed))

\* ConnectionManager.request_human_handoff
request_human_handoff(m, s, failed) ==
    broadcast_to_agents([m EXCEPT !.wq = Append(@, HandoffEntry(s))], failed)

\* sessions held by the queue, the pending puts and the map: what the bound caps
Load == Len(waiting_queue) + Len(put_tasks) + Len(session_agent_map)

(***************************************************************************)
(* Customer endpoint /ws/chat/{session_id}.                                *)
(***************************************************************************)
ConnectCustomer(s) ==
    /\ s \notin active_connections
    /\ active_connections' = active_connections \cup {s}
    /\ ws_ev' = [op |-> "connect_customer", session |-> s, agent |-> None]
    /\ UNCHANGED <<agent_connections, session_agent_map, waiting_queue, put_tasks,
                   agent_handler, agent_gone>>
    /\ UNCHANGED notWS

\* the handler's receive raises WebSocketDisconnect
DisconnectCustomer(s) ==
    /\ s \in active_connections
    /\ MgrBecomes(disconnect(Mgr, s))
    /\ ws_ev' = [op |-> "disconnect_customer", session |-> s, agent |-> None]
    /\ UNCHANGED <<agent_handler, agent_gone>>
    /\ UNCHANGED notWS

\* a customer frame that ends in request_human_handoff (AI escalation, or one of
\* the special commands)
CustomerHandoff(s) ==
    /\ s \in active_connections
    /\ Load < MaxQueue
    /\ \E failed \in SUBSET (SeqToSet(agent_connections) \cap agent_gone) :
          MgrBecomes(request_human_handoff(Mgr, s, failed))
    /\ ws_ev' = [op |-> "request_human_handoff", session |-> s, agent |-> None]
    /\ UNCHANGED <<agent_handler, agent_gone>>
    /\ UNCHANGED notWS

(***************************************************************************)
(* Agent endpoint /ws/agent/{agent_id}.                                    *)
(***************************************************************************)
ConnectAgent(a) ==
    /\ a \notin agent_handler
    /\ agent_handler' = agent_handler \cup {a}
    /\ agent_connections' = IF a \in SeqToSet(agent_connections)
                            THEN agent_connections
                            ELSE Append(agent_connections, a)
    /\ ws_ev' = [op |-> "connect_agent", session |-> None, agent |-> a]
    /\ UNCHANGED <<active_connections, session_agent_map, waiting_queue, put_tasks,
                   agent_gone>>
    /\ UNCHANGED notWS

\* the agent's peer goes away; frames it sent before may still be unread
AgentDrop(a) ==
    /\ a \in agent_handler \ agent_gone
    /\ agent_gone' = agent_gone \cup {a}
    /\ ws_ev' = [op |-> "agent_drop", session |-> None, agent |-> a]
    /\ UNCHANGED <<active_connections, agent_connections, session_agent_map,
                   waiting_queue, put_tasks, agent_handler>>
    /\ UNCHANGED notWS

\* the handler's receive raises WebSocketDisconnect (websocket.py:347-348)
AgentDisconnect(a) ==
    /\ a \in agent_gone
    /\ MgrBecomes(disconnect_agent(Mgr, a))
    /\ agent_handler' = agent_handler \ {a}
    /\ agent_gone' = agent_gone \ {a}
    /\ ws_ev' = [op |-> "disconnect_agent", session |-> None, agent |-> a]
    /\ UNCHANGED notWS

\* action accept_customer (websocket.py:308-313).  Subscripting a bare string
\* entry with "session_id" raises TypeError, which the handler's
\* `except Exception` turns into disconnect_agent and the end of the loop.
AcceptEffect(m, a) ==
    IF m.wq = <<>> THEN m
    ELSE LET customer_data == Head(m.wq)
             popped == [m EXCEPT !.wq = Tail(@)]
         IN  IF customer_data.kind = "dict"
             THEN assign_agent_to_session(popped, a, customer_data.session_id)
             ELSE disconnect_agent(popped, a)

AcceptRaises == waiting_queue # <<>> /\ Head(waiting_queue).kind # "dict"

AcceptCustomer(a) ==
    /\ a \in agent_handler
    /\ MgrBecomes(AcceptEffect(Mgr, a))
    /\ agent_handler' = IF AcceptRaises THEN agent_handler \ {a} ELSE agent_handler
    /\ agent_gone' = IF AcceptRaises THEN agent_gone \ {a} ELSE agent_gone
    /\ ws_ev' = [op |-> "accept_customer", session |-> None, agent |-> a]
    /\ UNCHANGED notWS

\* action transfer_customer (websocket.py:315-321)
TransferCustomer(a, s, b) ==
    /\ a \in agent_handler
    /\ s \in MapSessions(session_agent_map) \/ Load < MaxQueue
    /\ MgrBecomes(IF b \in SeqToSet(agent_connections)
                  THEN assign_agent_to_session(Mgr, b, s)
                  ELSE Mgr)
    /\ ws_ev' = [op |-> "transfer_customer", session |-> s, agent |-> a]
    /\ UNCHANGED <<agent_handler, agent_gone>>
    /\ UNCHANGED notWS

\* action end_chat (websocket.py:323-336)
EndChat(a, s) ==
    /\ a \in agent_handler
    /\ MgrBecomes(IF s \in active_connections
                  THEN [Mgr EXCEPT !.sam = MapDel(@, s)]
                  ELSE Mgr)
    /\ ws_ev' = [op |-> "end_chat", session |-> s, agent |-> a]
    /\ UNCHANGED <<agent_handler, agent_gone>>
    /\ UNCHANGED notWS

\* the event loop runs the oldest created task waiting_queue.put(session)
RunPutTask ==
    /\ put_tasks # <<>>
    /\ waiting_queue' = Append(waiting_queue, RequeuedEntry(Head(put_tasks)))
    /\ put_tasks' = Tail(put_tasks)
    /\ ws_ev' = [op |-> "put_task", session |-> Head(put_tasks), agent |-> None]
    /\ UNCHANGED <<active_connections, agent_connections, session_agent_map,
                   agent_handler, agent_gone>>
    /\ UNCHANGED notWS

InitWS ==
    /\ active_connections = {}
    /\ agent_connections = <<>>
    /\ session_agent_map = <<>>
    /\ waiting_queue = <<>>
    /\ put_tasks = <<>>
    /\ agent_handler = {}
    /\ agent_gone = {}
    /\ ws_ev = [op |-> "init", session |-> None, agent |-> None]

\* the state of the components a specification does not exercise
IdleWS == InitWS

NextWS ==
    \/ \E s \in Sessions : ConnectCustomer(s)
    \/ \E s \in Sessions : DisconnectCustomer(s)
    \/ \E s \in Sessions : CustomerHandoff(s)
    \/ \E a \in Agents : ConnectAgent(a)
    \/ \E a \in Agents : AgentDrop(a)
    \/ \E a \in Agents : AgentDisconnect(a)
    \/ \E a \in Agents : AcceptCustomer(a)
    \/ \E a \in Agents, s \in Sessions, b \in Agents : TransferCustomer(a, s, b)
    \/ \E a \in Agents, s \in Sessions : EndChat(a, s)
    \/ RunPutTask

(***************************************************************************)
(* In-memory cache (src/src/core/memory_cache.py).                         *)
(* Every method body runs under the one lock and never suspends inside it, *)
(* so each method is one atomic step.                                      *)
(***************************************************************************)
\* CacheItem.ttl = None
NoTTL == -1

Keys == {<<"k1">>, <<"k2">>, <<"k3">>}
Values == {1, 2}
TTLs == {NoTTL, TTLSeconds}

Miss == [hit |-> FALSE, value |-> 0]

Hit(v) == [hit |-> TRUE, value |-> v]

\* CacheItem.__init__
CacheItem(k, v, ttl, t) == [key |-> k, value |-> v, created_at |-> t, ttl |-> ttl]

\* an expiry check that never fires
is_expired_never(item, t) == FALSE

\* CacheItem.is_expired
is_expired(item, t) ==
    IF item.ttl = NoTTL THEN FALSE
    ELSE (t - item.created_at) > item.ttl

CacheKeys(c) == {c[i].key : i \in 1..Len(c)}

CacheLookup(c, k) == c[CHOOSE i \in 1..Len(c) : c[i].key = k]

CacheDel(c, k) == SelectSeq(c, LAMBDA e : e.key # k)

\* OrderedDict.move_to_end(key)
move_to_end(c, k) == Append(CacheDel(c, k), CacheLookup(c, k))

\* a lookup that leaves the order alone
get_without_move(c, k, t) ==
    IF k \in CacheKeys(c)
    THEN IF ~is_expired(CacheLookup(c, k), t)
         THEN [cache |-> c, result |-> Hit(CacheLookup(c, k).value)]
         ELSE [cache |-> CacheDel(c, k), result |-> Miss]
    ELSE [cache |-> c, result |-> Miss]

\* InMemoryCache.get
cache_get(c, k, t) ==
    IF k \in CacheKeys(c)
    THEN IF ~is_expired(CacheLookup(c, k), t)
         THEN [cache |-> move_to_end(c, k), result |-> Hit(CacheLookup(c, k).value)]
         ELSE [cache |-> CacheDel(c, k), result |-> Miss]
    ELSE [cache |-> c, result |-> Miss]

\* the loop `while len(self.cache) >= self.max_size: self.cache.popitem(last=False)`;
\* popitem on an empty dict raises KeyError (only a max_size <= 0 gets there)
RECURSIVE EvictLoop(_, _, _)
EvictLoop(c, ms, evicted) ==
    IF Len(c) >= ms
    THEN IF c = <<>>
         THEN [cache |-> c, evicted |-> evicted, raised |-> TRUE]
         ELSE EvictLoop(Tail(c), ms, Append(evicted, Head(c).key))
    ELSE [cache |-> c, evicted |-> evicted, raised |-> FALSE]

\* dict item assignment: an existing key keeps its place, a new key goes last
CachePut(c, item) ==
    IF item.key \in CacheKeys(c)
    THEN [i \in 1..Len(c) |-> IF c[i].key = item.key THEN item ELSE c[i]]
    ELSE Append(c, item)

\* a set that inserts without making room
set_without_eviction(c, k, v, ttl, t, ms) ==
    [cache |-> move_to_end(CachePut(c, CacheItem(k, v, ttl, t)), k),
     evicted |-> <<>>, raised |-> FALSE]

\* InMemoryCache.set
cache_set(c, k, v, ttl, t, ms) ==
    LET room == EvictLoop(c, ms, <<>>)
    IN  IF room.raised THEN room
        ELSE [cache |-> move_to_end(CachePut(room.cache, CacheItem(k, v, ttl, t)), k),
              evicted |-> room.evicted, raised |-> FALSE]

\* InMemoryCache.delete
cache_delete(c, k) ==
    IF k \in CacheKeys(c)
    THEN [cache |-> CacheDel(c, k), result |-> TRUE]
    ELSE [cache |-> c, result |-> FALSE]

\* InMemoryCache.exists
cache_exists(c, k, t) ==
    IF k \in CacheKeys(c)
    THEN IF ~is_expired(CacheLookup(c, k), t)
         THEN [cache |-> c, result |-> TRUE]
         ELSE [cache |-> CacheDel(c, k), result |-> FALSE]
    ELSE [cache |-> c, result |-> FALSE]

\* one pass of InMemoryCache._cleanup_expired
cleanup_expired(c, t) == SelectSeq(c, LAMBDA e : ~is_expired(e, t))

\* history: the keys still cached keep their order, k becomes the most recent
Forget(r, c) == SelectSeq(r, LAMBDA k : k \in CacheKeys(c))

Touch(r, k) == Append(SeqRemove(r, k), k)

NoKey == <<"">>

\* history record of one operation: what it returned, the keys set evicted to make
\* room, the keys removed because they had expired, and the key of the successful
\* get that came immediately before a set (NoKey for the other operations, and if
\* the operation before was no successful get)
CacheEv(op, k, hit, value, evicted, expired) ==
    [op |-> op, key |-> k, hit |-> hit, value |-> value, evicted |-> evicted,
     expired |-> expired,
     after_get |-> IF op = "set" /\ cache_ev.op = "get" /\ cache_ev.hit
                   THEN cache_ev.key ELSE NoKey]

\* the keys of c that c2 no longer holds
Removed(c, c2) == CacheKeys(c) \ CacheKeys(c2)

Get(k) ==
    LET r == cache_get(cache, k, now)
    IN  /\ cache' = r.cache
        /\ recency' = IF r.result.hit THEN Touch(recency, k) ELSE Forget(recency, r.cache)
        /\ cache_ev' = CacheEv("get", k, r.result.hit, r.result.value, <<>>, Removed(cache, r.cache))
        /\ UNCHANGED <<max_size, now>>
        /\ UNCHANGED notCache

Set(k, v, ttl) ==
    LET r == cache_set(cache, k, v, ttl, now, max_size)
    IN  /\ cache' = r.cache
        /\ recency' = IF r.raised THEN Forget(recency, r.cache)
                      ELSE Touch(Forget(recency, r.cache), k)
        /\ cache_ev' = CacheEv("set", k, ~r.raised, 0, r.evicted, {})
        /\ UNCHANGED <<max_size, now>>
        /\ UNCHANGED notCache

Delete(k) ==
    LET r == cache_delete(cache, k)
    IN  /\ cache' = r.cache
        /\ recency' = Forget(recency, r.cache)
        /\ cache_ev' = CacheEv("delete", k, r.result, 0, <<>>, {})
        /\ UNCHANGED <<max_size, now>>
        /\ UNCHANGED notCache

Exists(k) ==
    LET r == cache_exists(cache, k, now)
    IN  /\ cache' = r.cache
        /\ recency' = Forget(recency, r.cache)
        /\ cache_ev' = CacheEv("exists", k, r.result, 0, <<>>, Removed(cache, r.cache))
        /\ UNCHANGED <<max_size, now>>
        /\ UNCHANGED notCache

Clear ==
    /\ cache' = <<>>
    /\ recency' = <<>>
    /\ cache_ev' = CacheEv("clear", NoKey, TRUE, 0, <<>>, {})
    /\ UNCHANGED <<max_size, now>>
    /\ UNCHANGED notCache

\* the running sweep task wakes from its sleep and removes the expired items
Sweep ==
    /\ cache' = cleanup_expired(cache, now)
    /\ recency' = Forget(recency, cache')
    /\ cache_ev' = CacheEv("sweep", NoKey, cache' # cache, 0, <<>>, Removed(cache, cache'))
    /\ UNCHANGED <<max_size, now>>
    /\ UNCHANGED notCache

Tick ==
    /\ now < MaxTime
    /\ now' = now + 1
    /\ cache_ev' = CacheEv("tick", NoKey, TRUE, 0, <<>>, {})
    /\ UNCHANGED <<cache, max_size, recency>>
    /\ UNCHANGED notCache

\* InMemoryCache.__init__
CacheStart ==
    /\ cache = <<>>
    /\ now = 0
    /\ recency = <<>>
    /\ cache_ev = [op |-> "init", key |-> NoKey, hit |-> TRUE, value |-> 0, evicted |-> <<>>,
                   expired |-> {}, after_get |-> NoKey]

InitCache == CacheStart /\ max_size \in 0..MaxSize

IdleCache == CacheStart /\ max_size = MaxSize

NextCache ==
    \/ \E k \in Keys : Get(k)
    \/ \E k \in Keys, v \in Values, ttl \in TTLs : Set(k, v, ttl)
    \/ \E k \in Keys : Delete(k)
    \/ \E k \in Keys : Exists(k)
    \/ Clear
    \/ Sweep
    \/ Tick

(***************************************************************************)
(* Rate limiter (memory_cache.py:172-212) on the singleton cache, which    *)
(* get_cache() builds with the default max_size.  Neither cache.get nor    *)
(* cache.set suspends (the lock is free whenever a coroutine is scheduled),*)
(* so one is_allowed call is one atomic step.                              *)
(***************************************************************************)
DefaultMaxSize == 10000

NoTime == -1

Identifiers == {"id1", "id2"}

\* f"{self.limiter_prefix}{identifier}:{window_seconds}"
LimiterKey(id, w) == <<"rate_limit:", id, w>>

\* a limiter that compares with > where the code has >=
is_allowed_off_by_one(c, id, n, w, t, ms) ==
    LET key == LimiterKey(id, w)
        got == cache_get(c, key, t)
    IN  IF ~got.result.hit
        THEN [cache |-> cache_set(got.cache, key, 1, w, t, ms).cache, result |-> TRUE]
        ELSE IF got.result.value > n
             THEN [cache |-> got.cache, result |-> FALSE]
             ELSE [cache |-> cache_set(got.cache, key, got.result.value + 1, w, t, ms).cache,
                   result |-> TRUE]

\* a limiter whose increment writes 1 again instead of current_count + 1
is_allowed_losing_increment(c, id, n, w, t, ms) ==
    LET key == LimiterKey(id, w)
        got == cache_get(c, key, t)
    IN  IF ~got.result.hit
        THEN [cache |-> cache_set(got.cache, key, 1, w, t, ms).cache, result |-> TRUE]
        ELSE IF got.result.value >= n
             THEN [cache |-> got.cache, result |-> FALSE]
             ELSE [cache |-> cache_set(got.cache, key, 1, w, t, ms).cache, result |-> TRUE]

\* RateLimiter.is_allowed
is_allowed(c, id, n, w, t, ms) ==
    LET key == LimiterKey(id, w)
        got == cache_get(c, key, t)
    IN  IF ~got.result.hit
        THEN [cache |-> cache_set(got.cache, key, 1, w, t, ms).cache, result |-> TRUE]
        ELSE IF got.result.value >= n
             THEN [cache |-> got.cache, result |-> FALSE]
             ELSE [cache |-> cache_set(got.cache, key, got.result.value + 1, w, t, ms).cache,
                   result |-> TRUE]

\* whether the call finds an unexpired counter, i.e. falls in the current window
InWindow(id) == cache_get(cache, LimiterKey(id, window_seconds), now).result.hit

\* one call is_allowed(id, max_requests, window_seconds); the model stops calling
\* after the second denial of a window
IsAllowed(id) ==
    LET r == is_allowed(cache, id, max_requests, window_seconds, now, max_size)
    IN  /\ InWindow(id) => Len(rl_hist[id]) < max_requests + 2
        /\ cache' = r.cache
        /\ recency' = Touch(Forget(recency, r.cache), LimiterKey(id, window_seconds))
        /\ rl_hist' = [rl_hist EXCEPT ![id] = IF InWindow(id) THEN Append(@, r.result)
                                              ELSE <<r.result>>]
        /\ window_start' = [window_start EXCEPT ![id] = IF InWindow(id) THEN @ ELSE now]
        /\ cache_ev' = CacheEv("is_allowed", LimiterKey(id, window_seconds), r.result, 0,
                               <<>>, {})
        /\ UNCHANGED <<max_size, now, max_requests, window_seconds>>
        /\ UNCHANGED notRL

\* a get_remaining without the floor at zero
get_remaining_unfloored(c, id, n, w, t) ==
    LET got == cache_get(c, LimiterKey(id, w), t)
    IN  IF ~got.result.hit
        THEN [cache |-> got.cache, found |-> FALSE, result |-> n]
        ELSE [cache |-> got.cache, found |-> TRUE, result |-> n - got.result.value]

\* RateLimiter.get_remaining; `found` tells whether cache.get returned a counter
get_remaining(c, id, n, w, t) ==
    LET got == cache_get(c, LimiterKey(id, w), t)
    IN  IF ~got.result.hit
        THEN [cache |-> got.cache, found |-> FALSE, result |-> n]
        ELSE [cache |-> got.cache, found |-> TRUE,
              result |-> IF n - got.result.value > 0 THEN n - got.result.value ELSE 0]

\* one call get_remaining(id, max_requests, window_seconds)
GetRemaining(id) ==
    LET r == get_remaining(cache, id, max_requests, window_seconds, now)
        key == LimiterKey(id, window_seconds)
    IN  /\ cache' = r.cache
        /\ recency' = IF r.found THEN Touch(recency, key) ELSE Forget(recency, r.cache)
        /\ cache_ev' = CacheEv("get_remaining", key, r.found, r.result, <<>>,
                               Removed(cache, r.cache))
        /\ UNCHANGED <<max_size, now, max_requests, window_seconds, rl_hist, window_start>>
        /\ UNCHANGED notRL

InitRL ==
    /\ max_requests \in 0..MaxRequests
    /\ window_seconds \in 0..MaxWindow
    /\ rl_hist = [id \in Identifiers |-> <<>>]
    /\ window_start = [id \in Identifiers |-> NoTime]

IdleRL ==
    /\ max_requests = 0
    /\ window_seconds = 0
    /\ rl_hist = [id \in Identifiers |-> <<>>]
    /\ window_start = [id \in Identifiers |-> NoTime]

NextRL ==
    \/ \E id \in Identifiers : IsAllowed(id)
    \/ \E id \in Identifiers : GetRemaining(id)
    \/ Sweep
    \/ Tick

(***************************************************************************)
(* NLP engine (src/src/core/nlp_engine.py), the instance the chat router   *)
(* owns (src/src/api/routers/chat.py:19).                                  *)
(***************************************************************************)
Intents == {"greeting", "farewell", "tech_support", "password_reset", "service_status",
            "create_ticket", "billing_inquiry", "general_inquiry", "human_handoff",
            "unknown"}

\* IntentRecognizer.process: intent_patterns, in dict order
IntentPatterns ==
    << [intent |-> "greeting",        patterns |-> {"hello", "hi", "hey", "good morning"}],
       [intent |-> "farewell",        patterns |-> {"bye", "goodbye", "see you", "thanks"}],
       [intent |-> "password_reset",  patterns |-> {"password", "reset", "forgot", "can't login"}],
       [intent |-> "service_status",  patterns |-> {"status", "down", "working", "issue"}],
       [intent |-> "create_ticket",   patterns |-> {"ticket", "problem", "help", "support"}],
       [intent |-> "billing_inquiry", patterns |-> {"bill", "invoice", "payment", "charge"}],
       [intent |-> "human_handoff",   patterns |-> {"human", "agent", "person", "talk to someone"}] >>

\* A text is represented by the patterns that occur in its lower-cased form and by
\* the types of the entities the extractor finds in it, in the order it finds them.
TextHello    == [kw |-> {"hello"},              entities |-> <<>>]
TextReset    == [kw |-> {"reset", "password"},  entities |-> <<>>]
TextForgot   == [kw |-> {"forgot", "password"}, entities |-> <<"email">>]
TextGibberish == [kw |-> {},                    entities |-> <<>>]
TextHuman    == [kw |-> {"human"},              entities |-> <<>>]

Texts == {TextHello, TextReset, TextForgot, TextGibberish, TextHuman}

\* the messages posted to the chat router
ChatTexts == {TextReset, TextGibberish, TextHuman}

\* score = sum(1 for pattern in patterns if pattern in text_lower)
Score(text, i) == Cardinality(IntentPatterns[i].patterns \cap text.kw)

\* scores[a] > scores[b], the scores being score / len(patterns)
Better(text, a, b) ==
    Score(text, a) * Cardinality(IntentPatterns[b].patterns)
        > Score(text, b) * Cardinality(IntentPatterns[a].patterns)

\* max(scores, key=scores.get): the first intent, in dict order, no other beats
recognize(text) ==
    LET scored == {i \in 1..Len(IntentPatterns) : Score(text, i) > 0}
    IN  IF scored = {} THEN "unknown"
        ELSE LET best == CHOOSE i \in scored :
                            /\ \A j \in scored : ~Better(text, j, i)
                            /\ \A j \in scored : (j < i) => Better(text, i, j)
             IN  IntentPatterns[best].intent

Absent == [present |-> FALSE]

\* DialogueManager.get_or_create_session: the DialogueState it builds (session_id is
\* the key it is stored under; user_id and context are never read or written again)
FreshState ==
    [present |-> TRUE, current_intent |-> None, turn_count |-> 0,
     entities_collected |-> {}, awaiting_info |-> None, handoff_requested |-> FALSE]

get_or_create_session(ss, s) ==
    IF ss[s].present THEN ss ELSE [ss EXCEPT ![s] = FreshState]

\* DialogueManager._check_missing_info
check_missing_info(state) ==
    LET required == CASE state.current_intent = "password_reset" -> <<"email">>
                      [] state.current_intent = "create_ticket" -> <<"issue_description">>
                      [] state.current_intent = "service_status" -> <<"service_name">>
                      [] OTHER -> <<>>
        missing == SelectSeq(required, LAMBDA info : info \notin state.entities_collected)
    IN  IF missing = <<>> THEN None ELSE Head(missing)

\* an update that records the intent and forgets to count the turn
update_state_no_count(ss, s, intent, entities) ==
    LET created == get_or_create_session(ss, s)
        st1 == [created[s] EXCEPT !.current_intent = intent,
                                  !.entities_collected = @ \cup SeqToSet(entities)]
    IN  [created EXCEPT ![s] = [st1 EXCEPT !.awaiting_info = check_missing_info(st1)]]

\* an update that builds the session's state anew for every message
update_state_anew(ss, s, intent, entities) ==
    LET st1 == [FreshState EXCEPT !.current_intent = intent,
                                  !.turn_count = 1,
                                  !.entities_collected = SeqToSet(entities)]
    IN  [ss EXCEPT ![s] = [st1 EXCEPT !.awaiting_info = check_missing_info(st1)]]

\* DialogueManager.update_state
update_state(ss, s, intent, entities) ==
    LET created == get_or_create_session(ss, s)
        st1 == [created[s] EXCEPT !.current_intent = intent,
                                  !.turn_count = @ + 1,
                                  !.entities_collected = @ \cup SeqToSet(entities)]
    IN  [created EXCEPT ![s] = [st1 EXCEPT !.awaiting_info = check_missing_info(st1)]]

\* a handoff test that compares the turn count with >= where the code has >
should_handoff_at_ten(state) ==
    IF state.handoff_requested \/ state.current_intent = "human_handoff" THEN TRUE
    ELSE IF state.turn_count >= 10 THEN TRUE
    ELSE IF state.current_intent = "unknown" /\ state.turn_count > 2 THEN TRUE
    ELSE FALSE

\* DialogueManager.should_handoff
should_handoff(state) ==
    IF state.handoff_requested \/ state.current_intent = "human_handoff" THEN TRUE
    ELSE IF state.turn_count > 10 THEN TRUE
    ELSE IF state.current_intent = "unknown" /\ state.turn_count > 2 THEN TRUE
    ELSE FALSE

CallsFor(s) == Len(SelectSeq(nlp_calls, LAMBDA c : c.session_id = s))

TurnsOf(s) == IF sessions[s].present THEN sessions[s].turn_count ELSE 0

\* NLPEngine.process_message up to `await asyncio.gather(...)` (nlp_engine.py:232-241)
ProcessBegin(s, text) ==
    /\ Len(nlp_calls) < MaxCalls
    /\ TurnsOf(s) + CallsFor(s) < MaxTurns
    /\ sessions' = get_or_create_session(sessions, s)
    /\ nlp_calls' = Append(nlp_calls, [session_id |-> s, text |-> text])
    /\ cleared' = [cleared EXCEPT ![s] = FALSE]
    /\ UNCHANGED <<n_done, last_intent>>
    /\ UNCHANGED notNLP

\* the rest of process_message (nlp_engine.py:241-253).  The event loop wakes the
\* suspended calls in the order in which they suspended.
ProcessFinish ==
    /\ nlp_calls # <<>>
    /\ LET call == Head(nlp_calls)
           intent == recognize(call.text)
       IN  /\ sessions' = update_state(sessions, call.session_id, intent, call.text.entities)
           /\ n_done' = [n_done EXCEPT ![call.session_id] = @ + 1]
           /\ last_intent' = [last_intent EXCEPT ![call.session_id] = intent]
    /\ nlp_calls' = Tail(nlp_calls)
    /\ UNCHANGED cleared
    /\ UNCHANGED notNLP

\* NLPEngine.clear_session, from DELETE /session/{id} (chat.py:212-218)
ClearSession(s) ==
    /\ sessions' = [sessions EXCEPT ![s] = Absent]
    /\ n_done' = [n_done EXCEPT ![s] = 0]
    /\ last_intent' = [last_intent EXCEPT ![s] = None]
    /\ cleared' = [cleared EXCEPT ![s] = TRUE]
    /\ UNCHANGED nlp_calls
    /\ UNCHANGED notNLP

\* POST /session/{id}/handoff (chat.py:180-192): 404 when there is no state
SessionHandoff(s) ==
    /\ sessions' = IF sessions[s].present
                   THEN [sessions EXCEPT ![s].handoff_requested = TRUE]
                   ELSE sessions
    /\ UNCHANGED <<nlp_calls, n_done, last_intent, cleared>>
    /\ UNCHANGED notNLP

\* NLPEngine.get_dialogue_state
get_dialogue_state(s) == sessions[s]

InitNLP ==
    /\ sessions = [s \in Sessions |-> Absent]
    /\ nlp_calls = <<>>
    /\ n_done = [s \in Sessions |-> 0]
    /\ last_intent = [s \in Sessions |-> None]
    /\ cleared = [s \in Sessions |-> FALSE]

IdleNLP == InitNLP

NextNLP ==
    \/ \E s \in Sessions, text \in Texts : ProcessBegin(s, text)
    \/ ProcessFinish
    \/ \E s \in Sessions : ClearSession(s)
    \/ \E s \in Sessions : SessionHandoff(s)

(***************************************************************************)
(* should_handoff as a function of an arbitrary DialogueState.             *)
(***************************************************************************)
DialogueStates ==
    [present : {TRUE}, current_intent : Intents \cup {None}, turn_count : 0..MaxTurnCount,
     entities_collected : {{}}, awaiting_info : {None}, handoff_requested : BOOLEAN]

InitHS ==
    /\ hs_state \in DialogueStates
    /\ hs_called = FALSE
    /\ hs_result = FALSE

IdleHS ==
    /\ hs_state = FreshState
    /\ hs_called = FALSE
    /\ hs_result = FALSE

CallShouldHandoff ==
    /\ ~hs_called
    /\ hs_called' = TRUE
    /\ hs_result' = should_handoff(hs_state)
    /\ UNCHANGED hs_state
    /\ UNCHANGED notHS

NextHS ==
    \/ CallShouldHandoff

(***************************************************************************)
(* HTTP routers (src/src/api/routers/chat.py, knowledge.py, admin.py).     *)
(* The chat router drives its own NLPEngine (chat.py:19); a POST /message  *)
(* suspends once, inside process_message, and runs to its reply after it.  *)
(***************************************************************************)
\* chat.py:21
rag_module == None

HandoffMessage == "I'll connect you with a human agent"

HttpReply(op, arg, status, body, requires_human, intent, rag_invoked, task_scheduled) ==
    [op |-> op, arg |-> arg, status |-> status, body |-> body,
     requires_human |-> requires_human, intent |-> intent,
     rag_invoked |-> rag_invoked, task_scheduled |-> task_scheduled]

\* a handler that answered with its `except Exception` clause
Failed(op, arg, detail) == HttpReply(op, arg, 500, detail, FALSE, None, FALSE, FALSE)

\* a send_message that goes to generation without asking should_handoff
send_message_reply_no_handoff(s, state, intent) ==
    IF rag_module = None
    THEN Failed("send_message", s, "Failed to process message")
    ELSE HttpReply("send_message", s, 200, "generated", FALSE, intent, TRUE, TRUE)

\* send_message after process_message returned (chat.py:75-129); `state` is what
\* get_dialogue_state returns.  rag_module.process on None raises AttributeError.
send_message_reply(s, state, intent) ==
    IF should_handoff(state)
    THEN HttpReply("send_message", s, 200, HandoffMessage, TRUE, intent, FALSE, FALSE)
    ELSE IF rag_module = None
         THEN Failed("send_message", s, "Failed to process message")
         ELSE HttpReply("send_message", s, 200, "generated", FALSE, intent, TRUE, TRUE)

\* the turn counts explored: the first MaxTurns turns of a session and, for a long
\* session, the turns from LongTurns up to MaxTurnCount
LongTurns == MaxTurnCount - MaxTurns

WithinTurns(n) == n < MaxTurns \/ (LongTurns <= n /\ n < MaxTurnCount)

\* POST /message up to the await inside process_message (chat.py:60-73)
SendMessageBegin(s, text) ==
    /\ Len(nlp_calls) < MaxCalls
    /\ WithinTurns(TurnsOf(s) + CallsFor(s))
    /\ sessions' = get_or_create_session(sessions, s)
    /\ nlp_calls' = Append(nlp_calls, [session_id |-> s, text |-> text])
    /\ UNCHANGED <<n_done, last_intent, cleared, http_ev>>
    /\ UNCHANGED <<wsVars, cacheVars, rlVars, hsVars, gwVars, restVars>>

\* the rest of POST /message: update_state, get_dialogue_state, the reply
SendMessageFinish ==
    /\ nlp_calls # <<>>
    /\ LET call == Head(nlp_calls)
           intent == recognize(call.text)
           updated == update_state(sessions, call.session_id, intent, call.text.entities)
       IN  /\ sessions' = updated
           /\ http_ev' = send_message_reply(call.session_id, updated[call.session_id], intent)
    /\ nlp_calls' = Tail(nlp_calls)
    /\ UNCHANGED <<n_done, last_intent, cleared>>
    /\ UNCHANGED <<wsVars, cacheVars, rlVars, hsVars, gwVars, restVars>>

\* POST /session/{id}/handoff (chat.py:180-209): the 404 is raised inside the try
\* block, and HTTPException is an Exception
RequestHumanHandoff(s) ==
    /\ IF get_dialogue_state(s).present
       THEN /\ sessions' = [sessions EXCEPT ![s].handoff_requested = TRUE]
            /\ http_ev' = HttpReply("handoff", s, 200, "handoff_initiated", FALSE, None,
                                    FALSE, FALSE)
       ELSE /\ sessions' = sessions
            /\ http_ev' = Failed("handoff", s, "Failed to initiate handoff")
    /\ UNCHANGED <<nlp_calls, n_done, last_intent, cleared>>
    /\ UNCHANGED <<wsVars, cacheVars, rlVars, hsVars, gwVars, restVars>>

\* DELETE /session/{id} (chat.py:212-231)
EndSession(s) ==
    /\ sessions' = [sessions EXCEPT ![s] = Absent]
    /\ http_ev' = HttpReply("end_session", s, 200, "session_ended", FALSE, None, FALSE, FALSE)
    /\ UNCHANGED <<nlp_calls, n_done, last_intent, cleared>>
    /\ UNCHANGED <<wsVars, cacheVars, rlVars, hsVars, gwVars, restVars>>

\* GET /articles/{id} (knowledge.py:97-108)
GetArticle ==
    /\ http_ev' = Failed("get_article", "x", "Failed to fetch article")
    /\ UNCHANGED <<wsVars, cacheVars, rlVars, nlpVars, hsVars, gwVars, restVars>>

Urls == {"http://h/p", "https://h/p", "ftp://h/p", "h/p"}

UrlAccepted(url) == url \in {"http://h/p", "https://h/p"}

\* POST /import/url (knowledge.py:183-216)
ImportFromUrl(url) ==
    /\ http_ev' = IF UrlAccepted(url)
                  THEN HttpReply("import_url", url, 200, "import_started", FALSE, None,
                                 FALSE, TRUE)
                  ELSE Failed("import_url", url, "Failed to start import")
    /\ UNCHANGED <<wsVars, cacheVars, rlVars, nlpVars, hsVars, gwVars, restVars>>

\* file.filename.lower().split(".")[-1] of the uploads tried
Extensions == {"txt", "md", "pdf", "docx", "csv", "exe", "readme"}

AllowedTypes == {"txt", "md", "pdf", "docx", "csv"}

\* POST /import/file (knowledge.py:219-262)
ImportFromFile(ext) ==
    /\ http_ev' = IF ext \in AllowedTypes
                  THEN HttpReply("import_file", ext, 200, "import_started", FALSE, None,
                                 FALSE, TRUE)
                  ELSE Failed("import_file", ext, "Failed to import file")
    /\ UNCHANGED <<wsVars, cacheVars, rlVars, nlpVars, hsVars, gwVars, restVars>>

\* Bearer tokens by what jwt.decode sees: the signature, the exp claim, and the
\* claims of the payload
Tokens == [signed : BOOLEAN, expired : BOOLEAN, role : {"admin", "user", None},
           username : BOOLEAN]

\* verify_admin_token (admin.py:46-66): the status it raises, 200 when it returns
verify_admin_token(token) ==
    IF ~token.signed THEN 401
    ELSE IF token.expired THEN 401
    ELSE IF token.role # "admin" THEN 403
    ELSE 200

AdminEndpoints == {"config", "update_config", "analytics", "conversations",
                   "conversation_details", "broadcast", "reload_models", "clear_cache",
                   "logs"}

\* the handlers of admin.py:69-309 on a request that passed verify_admin_token.
\* Each reads admin['username'] inside its try block; get_conversation_details
\* then raises its 404 inside the same block.
admin_handler(endpoint, token) ==
    IF ~token.username
    THEN Failed(endpoint, token, "Failed")
    ELSE IF endpoint = "conversation_details"
         THEN Failed(endpoint, token, "Failed to fetch conversation")
         ELSE HttpReply(endpoint, token, 200, "handled", FALSE, None, FALSE, FALSE)

AdminRequest(endpoint, token) ==
    /\ http_ev' = IF verify_admin_token(token) # 200
                  THEN HttpReply(endpoint, token, verify_admin_token(token), "rejected",
                                 FALSE, None, FALSE, FALSE)
                  ELSE admin_handler(endpoint, token)
    /\ UNCHANGED <<wsVars, cacheVars, rlVars, nlpVars, hsVars, gwVars, restVars>>

NoRequest == HttpReply("none", None, 0, None, FALSE, None, FALSE, FALSE)

InitAPI ==
    /\ http_ev = NoRequest

IdleAPI == InitAPI

\* the dialogue states after n messages `text` of session s were processed
RECURSIVE Replay(_, _, _, _)
Replay(ss, s, text, n) ==
    IF n = 0 THEN ss
    ELSE Replay(update_state(ss, s, recognize(text), text.entities), s, text, n - 1)

\* an engine on which some sessions have already had LongTurns password-reset
\* messages processed, none of them pending
InitLongSessions ==
    /\ \E long \in SUBSET Sessions :
          sessions = [s \in Sessions |->
                        IF s \in long
                        THEN Replay([x \in Sessions |-> Absent], s, TextReset, LongTurns)[s]
                        ELSE Absent]
    /\ nlp_calls = <<>>
    /\ n_done = [s \in Sessions |-> 0]
    /\ last_intent = [s \in Sessions |-> None]
    /\ cleared = [s \in Sessions |-> FALSE]

\* the chat router on its NLP engine
NextChat ==
    \/ \E s \in Sessions, text \in ChatTexts : SendMessageBegin(s, text)
    \/ SendMessageFinish
    \/ \E s \in Sessions : RequestHumanHandoff(s)
    \/ \E s \in Sessions : EndSession(s)

\* the handlers that answer from the request alone, and the handoff request when
\* no message was ever sent
NextRouters ==
    \/ \E s \in Sessions : RequestHumanHandoff(s)
    \/ GetArticle
    \/ \E url \in Urls : ImportFromUrl(url)
    \/ \E ext \in Extensions : ImportFromFile(ext)
    \/ \E endpoint \in AdminEndpoints, token \in Tokens : AdminRequest(endpoint, token)

(***************************************************************************)
(* Customer frames on /ws/chat/{session_id} (websocket.py:204-274).  The   *)
(* gateway has its own NLPEngine (websocket.py:193) and a working RAG      *)
(* module (websocket.py:194).  A handler takes up the next frame of its    *)
(* session only when it is done with the previous one.                     *)
(***************************************************************************)
\* frames by their "message" text, the patterns that occur in its lower-cased form
\* and the entities found in it
FrameHuman     == [raw |-> "HUMAN", kw |-> {"human"}, entities |-> <<>>]
FrameHelp      == [raw |-> "help", kw |-> {"help"}, entities |-> <<>>]
FrameReset     == [raw |-> "reset my password", kw |-> {"reset", "password"},
                   entities |-> <<>>]

Frames == {FrameHuman, FrameHelp, FrameReset}

\* str.lower on the texts above
Lower(raw) == IF raw = "HUMAN" THEN "human" ELSE raw

\* websocket.py:273
IsCommand(raw) == Lower(raw) \in {"human", "agent", "help", "speak to human"}

\* a routing that forwards whenever the session is assigned
route_ignoring_registration(m, s) ==
    IF s \in MapSessions(m.sam)
    THEN [type |-> "routed_to_agent", agent_id |-> MapAgent(m.sam, s)]
    ELSE [type |-> "process_with_ai", agent_id |-> None]

\* ConnectionManager.route_customer_message (send_personal_message never raises)
route_customer_message(m, s) ==
    IF s \in MapSessions(m.sam) /\ MapAgent(m.sam, s) \in SeqToSet(m.agc)
    THEN [type |-> "routed_to_agent", agent_id |-> MapAgent(m.sam, s)]
    ELSE [type |-> "process_with_ai", agent_id |-> None]

FrameEv(s, raw, route, agent, tick) ==
    [session |-> s, raw |-> raw, route |-> route, agent |-> agent, tick |-> tick]

\* the agents a broadcast may fail to reach
MayFail == SUBSET (SeqToSet(agent_connections) \cap agent_gone)

\* a command check that compares the text as typed
command_check_as_typed(m, s, raw, failed) ==
    IF raw \in {"human", "agent", "help", "speak to human"}
    THEN request_human_handoff(m, s, failed)
    ELSE m

\* the special-command check that ends the handling of a frame (websocket.py:272-274)
AfterCommandCheck(m, s, raw, failed) ==
    IF IsCommand(raw) THEN request_human_handoff(m, s, failed) ELSE m

\* a frame arrives: routing, then either the forward and the command check, or the
\* AI path up to the await inside process_message (websocket.py:206-230)
CustomerFrame(s, frame) ==
    /\ s \in active_connections
    /\ CallsFor(s) = 0
    /\ Len(nlp_calls) < MaxCalls
    /\ TurnsOf(s) < MaxFrames
    /\ Len(waiting_queue) + Len(put_tasks) + Len(nlp_calls) < MaxQueue
    /\ LET routing == route_customer_message(Mgr, s)
       IN  IF routing.type = "routed_to_agent"
           THEN /\ \E failed \in MayFail :
                      MgrBecomes(AfterCommandCheck(Mgr, s, frame.raw, failed))
                /\ frame_ev' = FrameEv(s, frame.raw, "routed_to_agent", routing.agent_id,
                                       ~frame_ev.tick)
                /\ UNCHANGED <<sessions, nlp_calls>>
           ELSE /\ sessions' = get_or_create_session(sessions, s)
                /\ nlp_calls' = Append(nlp_calls, [session_id |-> s, text |-> frame])
                /\ frame_ev' = FrameEv(s, frame.raw, "process_with_ai", None,
                                       ~frame_ev.tick)
                /\ UNCHANGED <<active_connections, agent_connections, session_agent_map,
                               waiting_queue, put_tasks>>
    /\ UNCHANGED <<agent_handler, agent_gone, ws_ev, transcripts>>
    /\ UNCHANGED <<n_done, last_intent, cleared>>
    /\ UNCHANGED <<cacheVars, rlVars, hsVars, apiVars, restVars>>

\* how the generation and the replies to the customer end: the ai_response is sent
\* and the exchange stored; something raises and the error event is sent; the
\* error event cannot be sent either, which ends the handler (websocket.py:276-280)
Outcomes == {"ai_response", "error", "closed"}

\* the AI path from the resumption of process_message to the end of the frame
\* (websocket.py:227-274)
FrameResume(outcome) ==
    /\ nlp_calls # <<>>
    /\ LET call == Head(nlp_calls)
           s == call.session_id
           intent == recognize(call.text)
           updated == update_state(sessions, s, intent, call.text.entities)
       IN  /\ sessions' = updated
           /\ IF should_handoff(updated[s])
              THEN /\ \E failed \in MayFail :
                         MgrBecomes(request_human_handoff(Mgr, s, failed))
                   /\ frame_ev' = FrameEv(s, call.text.raw, "ai_handoff", None, frame_ev.tick)
                   /\ UNCHANGED transcripts
              ELSE IF outcome = "closed"
              THEN /\ MgrBecomes(disconnect(Mgr, s))
                   /\ frame_ev' = FrameEv(s, call.text.raw, "closed", None, frame_ev.tick)
                   /\ UNCHANGED transcripts
              ELSE /\ \E failed \in MayFail :
                         MgrBecomes(AfterCommandCheck(Mgr, s, call.text.raw, failed))
                   /\ frame_ev' = FrameEv(s, call.text.raw, outcome, None, frame_ev.tick)
                   /\ transcripts' = IF outcome = "ai_response"
                                     THEN [transcripts EXCEPT ![s] = @ + 1]
                                     ELSE transcripts
    /\ nlp_calls' = Tail(nlp_calls)
    /\ UNCHANGED <<agent_handler, agent_gone, ws_ev>>
    /\ UNCHANGED <<n_done, last_intent, cleared>>
    /\ UNCHANGED <<cacheVars, rlVars, hsVars, apiVars, restVars>>

InitGW ==
    /\ transcripts = [s \in Sessions |-> 0]
    /\ frame_ev = FrameEv(None, None, "none", None, FALSE)

IdleGW == InitGW

\* The manager states a frame can meet: the session assigned or not, the assigned
\* agent registered or not, the registered agents reachable or not.  The
\* assignments are listed up to the renaming of the sessions.
Assignments ==
    {<<>>} \cup
    {<<[session |-> "s1", agent |-> a]>> : a \in Agents} \cup
    {<<[session |-> "s1", agent |-> a], [session |-> "s2", agent |-> b]>> :
        a \in Agents, b \in Agents}

Registrations == {<<>>, <<"a1">>, <<"a1", "a2">>}

InitGateway ==
    /\ active_connections = Sessions
    /\ agent_connections \in Registrations
    /\ session_agent_map \in Assignments
    /\ waiting_queue = <<>>
    /\ put_tasks = <<>>
    /\ agent_gone \in {{}, SeqToSet(agent_connections)}
    /\ agent_handler = SeqToSet(agent_connections)
                           \cup {session_agent_map[i].agent : i \in 1..Len(session_agent_map)}
    /\ ws_ev = [op |-> "init", session |-> None, agent |-> None]

NextGateway ==
    \/ \E s \in Sessions, frame \in Frames : CustomerFrame(s, frame)
    \/ \E outcome \in Outcomes : FrameResume(outcome)

(***************************************************************************)
(* EnhancedRAG.process (src/src/knowledge/rag_module.py:402-457).  The     *)
(* four stage objects are injected; each stage is awaited, and what it     *)
(* returns is an input of the model.                                       *)
(***************************************************************************)
serverVars == <<wsVars, cacheVars, rlVars, nlpVars, hsVars, apiVars, gwVars>>

notRAG == <<serverVars, healthVars, dbVars, nluVars, nerVars, dbiVars, socketVars, valVars, sweeperVars, deskVars>>

DocIds == {"doc1", "doc2"}

\* RetrievalResult: documents (by id) and their scores, best first; scores in halves
Retrievals ==
    {[documents |-> <<>>, scores |-> <<>>]} \cup
    {[documents |-> <<d>>, scores |-> <<x>>] : d \in DocIds, x \in 1..2} \cup
    {r \in {[documents |-> <<d, f>>, scores |-> <<x, y>>] :
               d \in DocIds, f \in DocIds, x \in 1..2, y \in 1..2} :
        r.documents[1] # r.documents[2] /\ r.scores[1] >= r.scores[2]}

\* ResponseGenerator.generate (rag_module.py:252-255)
generate(documents) ==
    IF documents # <<>>
    THEN <<"Based on our documentation", Head(documents)>>
    ELSE <<"I couldn't find specific information">>

Apology == <<"I apologize, but I don't have enough verified information">>

NChecks == 4

\* ResponseValidator.validate (rag_module.py:307-311) for `failed` failed checks;
\* the confidence is counted in quarters
validate(failed) == [is_valid |-> failed = 0, confidence |-> NChecks - failed]

NotValidated == [is_valid |-> TRUE, confidence |-> NChecks]

\* a process that reports no sources when the validation fails
process_result_dropping_sources(retrieval, response, validation) ==
    [response |-> IF validation.is_valid THEN response ELSE Apology,
     confidence |-> validation.confidence,
     sources |-> IF validation.is_valid THEN retrieval.documents ELSE <<>>,
     validation_passed |-> validation.is_valid,
     retrieval_scores |-> retrieval.scores,
     document_count |-> Len(retrieval.documents)]

\* rag_module.py:441-457
process_result(retrieval, response, validation) ==
    [response |-> IF validation.is_valid THEN response ELSE Apology,
     confidence |-> validation.confidence,
     sources |-> retrieval.documents,
     validation_passed |-> validation.is_valid,
     retrieval_scores |-> retrieval.scores,
     document_count |-> Len(retrieval.documents)]

NoRetrieval == [documents |-> <<>>, scores |-> <<>>]

RagCall(pc, safety_mode, trace, retrieval, response, validation, result) ==
    [pc |-> pc, safety_mode |-> safety_mode, trace |-> trace, retrieval |-> retrieval,
     response |-> response, validation |-> validation, result |-> result]

NoResult == process_result(NoRetrieval, <<>>, NotValidated)

\* rag_module.py:418
RagRefine ==
    /\ rag.pc = "called"
    /\ rag' = [rag EXCEPT !.pc = "refined", !.trace = Append(@, "refine")]
    /\ UNCHANGED notRAG

\* rag_module.py:421
RagRetrieve(r) ==
    /\ rag.pc = "refined"
    /\ rag' = [rag EXCEPT !.pc = "retrieved", !.trace = Append(@, "retrieve"),
                          !.retrieval = r]
    /\ UNCHANGED notRAG

\* rag_module.py:424-428
RagGenerate ==
    /\ rag.pc = "retrieved"
    /\ rag' = [rag EXCEPT !.pc = "generated", !.trace = Append(@, "generate"),
                          !.response = generate(rag.retrieval.documents)]
    /\ UNCHANGED notRAG

\* rag_module.py:434-439
RagValidate(failed) ==
    /\ rag.pc = "generated"
    /\ rag.safety_mode
    /\ rag' = [rag EXCEPT !.pc = "validated", !.trace = Append(@, "validate"),
                          !.validation = validate(failed)]
    /\ UNCHANGED notRAG

\* rag_module.py:441-457
RagReturn ==
    /\ \/ rag.pc = "validated"
       \/ rag.pc = "generated" /\ ~rag.safety_mode
    /\ rag' = [rag EXCEPT !.pc = "returned",
                          !.result = process_result(rag.retrieval, rag.response,
                                                    rag.validation)]
    /\ UNCHANGED notRAG

InitRAG ==
    /\ rag \in {RagCall("called", safety_mode, <<>>, NoRetrieval, <<>>, NotValidated,
                        NoResult) : safety_mode \in BOOLEAN}

IdleRAG ==
    /\ rag = RagCall("idle", TRUE, <<>>, NoRetrieval, <<>>, NotValidated, NoResult)


NextRAG ==
    \/ RagRefine
    \/ \E r \in Retrievals : RagRetrieve(r)
    \/ RagGenerate
    \/ \E failed \in 0..NChecks : RagValidate(failed)
    \/ RagReturn

(***************************************************************************)
(* GET /ready (src/src/api/routers/health.py:20-98).  The three probes run *)
(* concurrently under asyncio.gather(return_exceptions=True) and finish in *)
(* any order.                                                              *)
(***************************************************************************)
notHealth == <<serverVars, ragVars, dbVars, nluVars, nerVars, dbiVars, socketVars, valVars, sweeperVars, deskVars>>

Probes == <<"postgres", "mongodb", "redis">>

ProbeNames == SeqToSet(Probes)

\* what a probe meets: the dependency answers; a call raises an Exception, which the
\* probe catches; the probe's task is cancelled, which `except Exception` lets through
Conditions == {"answers", "raises", "cancelled"}

NotRun == [kind |-> "none", status |-> None, error |-> FALSE]

\* check_postgres / check_mongodb / check_redis, as an entry of gather's result list
check(condition) ==
    CASE condition = "answers" -> [kind |-> "dict", status |-> "healthy", error |-> FALSE]
      [] condition = "raises"  -> [kind |-> "dict", status |-> "unhealthy", error |-> TRUE]
      [] OTHER                 -> [kind |-> "exception", status |-> None, error |-> TRUE]

\* a readiness that is satisfied with one healthy dependency
readiness_response_any(checks) ==
    [status |-> IF \E p \in ProbeNames :
                      checks[p].kind = "dict" /\ checks[p].status = "healthy"
                THEN "ready" ELSE "not_ready",
     checks |-> [p \in ProbeNames |->
                   IF checks[p].kind = "dict"
                   THEN [status |-> checks[p].status, error |-> checks[p].error]
                   ELSE [status |-> "error", error |-> TRUE]]]

\* readiness_probe (health.py:83-98)
readiness_response(checks) ==
    [status |-> IF \A p \in ProbeNames :
                      checks[p].kind = "dict" /\ checks[p].status = "healthy"
                THEN "ready" ELSE "not_ready",
     checks |-> [p \in ProbeNames |->
                   IF checks[p].kind = "dict"
                   THEN [status |-> checks[p].status, error |-> checks[p].error]
                   ELSE [status |-> "error", error |-> TRUE]]]

NoReply == [status |-> None,
            checks |-> [p \in ProbeNames |-> [status |-> None, error |-> FALSE]]]

\* one probe coroutine runs to its end
ProbeFinishes(p) ==
    /\ health.pc = "gathering"
    /\ health.checks[p] = NotRun
    /\ health' = [health EXCEPT !.checks[p] = check(health.conditions[p])]
    /\ UNCHANGED notHealth

\* gather returns, the handler builds the reply
ReadinessReplies ==
    /\ health.pc = "gathering"
    /\ \A p \in ProbeNames : health.checks[p] # NotRun
    /\ health' = [health EXCEPT !.pc = "replied",
                                !.reply = readiness_response(health.checks)]
    /\ UNCHANGED notHealth

InitHealth ==
    /\ health \in {[pc |-> "gathering", conditions |-> c,
                    checks |-> [p \in ProbeNames |-> NotRun], reply |-> NoReply] :
                        c \in [ProbeNames -> Conditions]}

IdleHealth ==
    /\ health = [pc |-> "idle", conditions |-> [p \in ProbeNames |-> "answers"],
                 checks |-> [p \in ProbeNames |-> NotRun], reply |-> NoReply]


NextHealth ==
    \/ \E p \in ProbeNames : ProbeFinishes(p)
    \/ ReadinessReplies

(***************************************************************************)
(* Table knowledge_articles of the two storage backends                    *)
(* (src/src/core/sqlite_db.py, src/src/core/postgres_db.py).  The table is *)
(* a set of rows; id is its primary key.                                   *)
(***************************************************************************)
notDB == <<serverVars, ragVars, healthVars, nluVars, nerVars, dbiVars, socketVars, valVars, sweeperVars, deskVars>>

Backends == {"sqlite", "postgres"}

ArticleIds == {"X", "Y"}

\* the arguments of add_knowledge_article besides the id; metadata as json.dumps
\* renders it
Articles ==
    {[title |-> "t1", content |-> "c1", category |-> "faq", source |-> "manual",
      metadata |-> "{}"],
     [title |-> "t2", content |-> "c2", category |-> "howto", source |-> "import",
      metadata |-> "{\"k\": 1}"],
     [title |-> "t1", content |-> "c2", category |-> "faq", source |-> "manual",
      metadata |-> "{}"]}

ArticleRow(id, article, created_at, updated_at) ==
    [id |-> id, title |-> article.title, content |-> article.content,
     category |-> article.category, source |-> article.source,
     metadata |-> article.metadata, created_at |-> created_at, updated_at |-> updated_at]

\* an INSERT that takes no notice of the row already stored under the id
add_plain_insert(backend, rows, id, article, t) ==
    rows \cup {ArticleRow(id, article, t, t)}

\* add_knowledge_article.  SQLite: INSERT OR REPLACE deletes the row in conflict and
\* inserts the new one, the timestamps taking their defaults.  PostgreSQL: ON
\* CONFLICT (id) DO UPDATE sets the five columns and updated_at on the stored row.
add_knowledge_article(backend, rows, id, article, t) ==
    LET stored == {r \in rows : r.id = id}
    IN  IF backend = "sqlite" \/ stored = {}
        THEN (rows \ stored) \cup {ArticleRow(id, article, t, t)}
        ELSE (rows \ stored) \cup {ArticleRow(id, article, r.created_at, t) : r \in stored}

\* get_knowledge_article: the rows SELECT ... WHERE id = ? finds
get_knowledge_article(rows, id) == {r \in rows : r.id = id}

NoCall == [id |-> None, article |-> None, tick |-> FALSE]

AddKnowledgeArticle(id, article) ==
    /\ db.backend \in Backends
    /\ db' = [db EXCEPT !.rows = add_knowledge_article(db.backend, db.rows, id, article,
                                                       db.clock),
                        !.last = [id |-> id, article |-> article, tick |-> ~db.last.tick]]
    /\ UNCHANGED notDB

\* CURRENT_TIMESTAMP moves on
DbTick ==
    /\ db.backend \in Backends
    /\ db.clock < MaxTime
    /\ db' = [db EXCEPT !.clock = @ + 1]
    /\ UNCHANGED notDB

InitDB ==
    /\ db \in {[backend |-> b, rows |-> {}, clock |-> 0, last |-> NoCall] : b \in Backends}

IdleDB ==
    /\ db = [backend |-> None, rows |-> {}, clock |-> 0, last |-> NoCall]


NextDB ==
    \/ \E id \in ArticleIds, article \in Articles : AddKnowledgeArticle(id, article)
    \/ DbTick

(***************************************************************************)
(* IntentRecognizer.process on texts as character strings                  *)
(* (src/src/core/nlp_engine.py:76-105).  `pattern in text_lower` is the    *)
(* substring test.                                                         *)
(***************************************************************************)
notNLU == <<serverVars, ragVars, healthVars, dbVars, nerVars, dbiVars, socketVars, valVars, sweeperVars, deskVars>>

\* intent_patterns, in dict order, each pattern as its characters
CharPatterns ==
    <<
       [intent |-> "greeting",
        patterns |-> <<<<"h", "e", "l", "l", "o">>,
                      <<"h", "i">>,
                      <<"h", "e", "y">>,
                      <<"g", "o", "o", "d", " ", "m", "o", "r", "n", "i", "n", "g">>>>],
       [intent |-> "farewell",
        patterns |-> <<<<"b", "y", "e">>,
                      <<"g", "o", "o", "d", "b", "y", "e">>,
                      <<"s", "e", "e", " ", "y", "o", "u">>,
                      <<"t", "h", "a", "n", "k", "s">>>>],
       [intent |-> "password_reset",
        patterns |-> <<<<"p", "a", "s", "s", "w", "o", "r", "d">>,
                      <<"r", "e", "s", "e", "t">>,
                      <<"f", "o", "r", "g", "o", "t">>,
                      <<"c", "a", "n", "'", "t", " ", "l", "o", "g", "i", "n">>>>],
       [intent |-> "service_status",
        patterns |-> <<<<"s", "t", "a", "t", "u", "s">>,
                      <<"d", "o", "w", "n">>,
                      <<"w", "o", "r", "k", "i", "n", "g">>,
                      <<"i", "s", "s", "u", "e">>>>],
       [intent |-> "create_ticket",
        patterns |-> <<<<"t", "i", "c", "k", "e", "t">>,
                      <<"p", "r", "o", "b", "l", "e", "m">>,
                      <<"h", "e", "l", "p">>,
                      <<"s", "u", "p", "p", "o", "r", "t">>>>],
       [intent |-> "billing_inquiry",
        patterns |-> <<<<"b", "i", "l", "l">>,
                      <<"i", "n", "v", "o", "i", "c", "e">>,
                      <<"p", "a", "y", "m", "e", "n", "t">>,
                      <<"c", "h", "a", "r", "g", "e">>>>],
       [intent |-> "human_handoff",
        patterns |-> <<<<"h", "u", "m", "a", "n">>,
                      <<"a", "g", "e", "n", "t">>,
                      <<"p", "e", "r", "s", "o", "n">>,
                      <<"t", "a", "l", "k", " ", "t", "o", " ", "s", "o", "m", "e", "o", "n", "e">>>>]
    >>

\* the words texts are made of: every pattern, and some words that are none
OtherWords == {<<"t", "h", "i", "s">>, <<"H", "e", "l", "l", "o">>, <<"x", "y", "z">>}

Vocabulary ==
    UNION {SeqToSet(CharPatterns[i].patterns) : i \in 1..Len(CharPatterns)} \cup OtherWords

RECURSIVE JoinWords(_)
JoinWords(words) ==
    IF words = <<>> THEN <<>>
    ELSE IF Len(words) = 1 THEN Head(words)
    ELSE Head(words) \o <<" ">> \o JoinWords(Tail(words))

\* str.lower on the characters that occur
LowerChar(c) == IF c = "H" THEN "h" ELSE c

text_lower(text) == [i \in 1..Len(text) |-> LowerChar(text[i])]

\* pattern in text
Occurs(pattern, text) ==
    \E i \in 1..(Len(text) - Len(pattern) + 1) :
        SubSeq(text, i, i + Len(pattern) - 1) = pattern

\* sum(1 for pattern in patterns if pattern in text_lower)
CharScore(patterns, text) ==
    Cardinality({k \in 1..Len(patterns) : Occurs(patterns[k], text)})

UnknownResult == [intent |-> "unknown", num |-> 0, den |-> 1]

\* max(scores, key=scores.get) over the intents from position i on: `best` is kept
\* unless a later score is strictly greater.  A confidence is the pair num / den.
RECURSIVE MaxScore(_, _, _)
MaxScore(text, i, best) ==
    IF i > Len(CharPatterns) THEN best
    ELSE LET score == CharScore(CharPatterns[i].patterns, text)
             den == Len(CharPatterns[i].patterns)
             mine == [intent |-> CharPatterns[i].intent, num |-> score, den |-> den]
         IN  IF score > 0 /\ (best.intent = "unknown"
                               \/ mine.num * best.den > best.num * mine.den)
             THEN MaxScore(text, i + 1, mine)
             ELSE MaxScore(text, i + 1, best)

\* a recognizer whose max keeps the last of equal scores
recognizer_last_wins(text) ==
    LET scored == {i \in 1..Len(CharPatterns) :
                      CharScore(CharPatterns[i].patterns, text_lower(text)) > 0}
        best == CHOOSE i \in scored : \A j \in scored :
                   \/ CharScore(CharPatterns[j].patterns, text_lower(text))
                         * Len(CharPatterns[i].patterns)
                      < CharScore(CharPatterns[i].patterns, text_lower(text))
                         * Len(CharPatterns[j].patterns)
                   \/ /\ CharScore(CharPatterns[j].patterns, text_lower(text))
                            * Len(CharPatterns[i].patterns)
                         = CharScore(CharPatterns[i].patterns, text_lower(text))
                            * Len(CharPatterns[j].patterns)
                      /\ j <= i
    IN  IF scored = {} THEN UnknownResult
        ELSE [intent |-> CharPatterns[best].intent,
              num |-> CharScore(CharPatterns[best].patterns, text_lower(text)),
              den |-> Len(CharPatterns[best].patterns)]

\* IntentRecognizer.process
recognizer_process(text) == MaxScore(text_lower(text), 1, UnknownResult)

\* texts of up to n words
RECURSIVE WordLists(_)
WordLists(n) ==
    IF n = 0 THEN {<<>>}
    ELSE WordLists(n - 1) \cup
         {Append(ws, w) : ws \in {x \in WordLists(n - 1) : Len(x) = n - 1}, w \in Vocabulary}

Recognize ==
    /\ nlu.pc = "called"
    /\ nlu' = [nlu EXCEPT !.pc = "returned",
                          !.result = recognizer_process(JoinWords(nlu.words))]
    /\ UNCHANGED notNLU

InitNLU ==
    /\ nlu \in {[pc |-> "called", words |-> ws, result |-> UnknownResult] :
                   ws \in WordLists(MaxWords)}

IdleNLU ==
    /\ nlu = [pc |-> "idle", words |-> <<>>, result |-> UnknownResult]

NextNLU ==
    \/ Recognize

(***************************************************************************)
(* EntityExtractor.process (src/src/core/nlp_engine.py:114-146).  A text   *)
(* is a list of tokens separated by single spaces; a token is an e-mail    *)
(* address (one match of email_pattern), a ticket reference (one match of  *)
(* ticket_pattern) or a word neither pattern matches.                      *)
(***************************************************************************)
notNER == <<serverVars, ragVars, healthVars, dbVars, nluVars, dbiVars, socketVars, valVars, sweeperVars, deskVars>>

\* "john.doe@example.com", "a@b.io", "ticket #12345", "case 7", "hello": the kind of
\* match, the value the match yields (group() / group(1)) and the length of the token
EntityTokens ==
    {[kind |-> "email", value |-> "john.doe@example.com", len |-> 20],
     [kind |-> "email", value |-> "a@b.io", len |-> 6],
     [kind |-> "ticket_number", value |-> "12345", len |-> 13],
     [kind |-> "ticket_number", value |-> "7", len |-> 6],
     [kind |-> "word", value |-> "hello", len |-> 5]}

\* match.start() of token i
RECURSIVE StartPos(_, _)
StartPos(tokens, i) ==
    IF i = 1 THEN 0 ELSE StartPos(tokens, i - 1) + tokens[i - 1].len + 1

\* re.finditer(pattern, text): the matches of one kind, left to right, as entities
RECURSIVE finditer(_, _, _)
finditer(kind, tokens, i) ==
    IF i > Len(tokens) THEN <<>>
    ELSE IF tokens[i].kind = kind
         THEN <<[type |-> kind, value |-> tokens[i].value,
                 start_pos |-> StartPos(tokens, i),
                 end_pos |-> StartPos(tokens, i) + tokens[i].len]>>
              \o finditer(kind, tokens, i + 1)
         ELSE finditer(kind, tokens, i + 1)

\* EntityExtractor.process: the e-mail loop, then the ticket loop
extract_entities(tokens) ==
    finditer("email", tokens, 1) \o finditer("ticket_number", tokens, 1)

RECURSIVE TokenLists(_)
TokenLists(n) ==
    IF n = 0 THEN {<<>>}
    ELSE TokenLists(n - 1) \cup
         {Append(ts, tk) : ts \in {x \in TokenLists(n - 1) : Len(x) = n - 1},
                           tk \in EntityTokens}

Extract ==
    /\ ner.pc = "called"
    /\ ner' = [ner EXCEPT !.pc = "returned", !.entities = extract_entities(ner.tokens)]
    /\ UNCHANGED notNER

InitNER ==
    /\ ner \in {[pc |-> "called", tokens |-> ts, entities |-> <<>>] :
                   ts \in TokenLists(MaxTokens)}

IdleNER ==
    /\ ner = [pc |-> "idle", tokens |-> <<>>, entities |-> <<>>]

NextNER ==
    \/ Extract

(***************************************************************************)
(* initialize() of a storage instance (src/src/core/postgres_db.py:25-109, *)
(* src/src/core/sqlite_db.py:26-97).  A call suspends at                   *)
(* asyncpg.create_pool (managed backend) and at the schema statements;     *)
(* other calls on the same instance run meanwhile.                         *)
(***************************************************************************)
notDBI == <<serverVars, ragVars, healthVars, dbVars, nluVars, nerVars, socketVars, valVars, sweeperVars, deskVars>>

Callers == {"c1", "c2", "c3"}

\* `if self._initialized: return`, else up to the first await
InitializeBegin(c) ==
    /\ dbi.pc[c] = "idle"
    /\ dbi.begun < MaxInitCalls
    /\ dbi' = [dbi EXCEPT !.begun = @ + 1,
                          !.pc[c] = IF dbi.initialized THEN "idle"
                                    ELSE IF dbi.backend = "postgres" THEN "create_pool"
                                    ELSE "schema",
                          !.noops = IF dbi.initialized THEN @ + 1 ELSE @]
    /\ UNCHANGED notDBI

\* self._pool = await asyncpg.create_pool(...)
PoolCreated(c) ==
    /\ dbi.pc[c] = "create_pool"
    /\ dbi' = [dbi EXCEPT !.pools = @ + 1, !.pool = c, !.pc[c] = "schema"]
    /\ UNCHANGED notDBI

\* the CREATE TABLE / CREATE INDEX statements have run; self._initialized = True
SchemaCreated(c) ==
    /\ dbi.pc[c] = "schema"
    /\ dbi' = [dbi EXCEPT !.schemas = @ + 1, !.initialized = TRUE, !.pc[c] = "idle"]
    /\ UNCHANGED notDBI

\* __init__
NewStorage(backend) ==
    [backend |-> backend, initialized |-> FALSE, pool |-> None,
     pc |-> [c \in Callers |-> "idle"], begun |-> 0, noops |-> 0, pools |-> 0,
     schemas |-> 0]

InitDBI ==
    /\ dbi \in {NewStorage(b) : b \in Backends}

IdleDBI ==
    /\ dbi = NewStorage("sqlite")

NextDBI ==
    \/ \E c \in Callers : InitializeBegin(c)
    \/ \E c \in Callers : PoolCreated(c)
    \/ \E c \in Callers : SchemaCreated(c)

(***************************************************************************)
(* The receive loops of the customer sockets (websocket.py:198-280).  The  *)
(* session id is the path parameter of the socket; connect_customer        *)
(* (websocket.py:33-37) stores the socket under it, whatever is stored     *)
(* there already.  Each socket has its own handler coroutine, which is     *)
(* suspended inside the pipeline of a frame at process_message and at the  *)
(* generation and send calls.                                              *)
(***************************************************************************)
notSockets == <<serverVars, ragVars, healthVars, dbVars, nluVars, nerVars, dbiVars, valVars, sweeperVars, deskVars>>

CustomerSockets == {"w1", "w2"}

\* a client opens a socket on /ws/chat/{s}: connect_customer, then the loop waits
\* in receive_json
SocketConnect(w, s) ==
    /\ sockets.handler[w].pc = "unconnected"
    /\ sockets' = [sockets EXCEPT !.handler[w] = [pc |-> "receive", session |-> s,
                                                  frames |-> 0],
                                  !.active[s] = w]
    /\ UNCHANGED notSockets

\* receive_json returns a frame with a message; the handler enters the pipeline and
\* is suspended in it (websocket.py:206-227)
SocketFrame(w) ==
    /\ sockets.handler[w].pc = "receive"
    /\ sockets.handler[w].frames < MaxFrames
    /\ sockets' = [sockets EXCEPT !.handler[w].pc = "pipeline"]
    /\ UNCHANGED notSockets

\* the pipeline of the frame ends and the loop is back in receive_json
\* (websocket.py:227-274)
SocketPipelineEnds(w) ==
    /\ sockets.handler[w].pc = "pipeline"
    /\ sockets' = [sockets EXCEPT !.handler[w].pc = "receive",
                                  !.handler[w].frames = @ + 1]
    /\ UNCHANGED notSockets

NoSockets ==
    [handler |-> [w \in CustomerSockets |->
                     [pc |-> "unconnected", session |-> None, frames |-> 0]],
     active |-> [s \in Sessions |-> None]]

InitSockets ==
    /\ sockets = NoSockets

IdleSockets ==
    /\ sockets = NoSockets

NextSockets ==
    \/ \E w \in CustomerSockets, s \in Sessions : SocketConnect(w, s)
    \/ \E w \in CustomerSockets : SocketFrame(w)
    \/ \E w \in CustomerSockets : SocketPipelineEnds(w)

(***************************************************************************)
(* ResponseValidator.validate and its four checks                          *)
(* (src/src/knowledge/rag_module.py:267-387).  A response is represented   *)
(* by what the checks read of it: the number of its distinct words, how    *)
(* many of them occur in the sources, and whether it contains a sensitive  *)
(* token, an uncertainty phrase, a harmful term, a defensive term.         *)
(***************************************************************************)
notVal == <<serverVars, ragVars, healthVars, dbVars, nluVars, nerVars, dbiVars, socketVars, sweeperVars, deskVars>>

\* self.safety_checks, in list order
SafetyChecks ==
    <<"_check_no_hallucination", "_check_no_sensitive_info",
      "_check_appropriate_confidence", "_check_no_harmful_content">>

\* the responses: one without words contains none of the terms; without source
\* documents no word occurs in the sources
Responses ==
    {r \in [words : 0..MaxResponseWords, in_sources : 0..MaxResponseWords,
            sensitive : BOOLEAN, uncertain : BOOLEAN, harmful : BOOLEAN,
            defensive : BOOLEAN] :
        /\ r.in_sources <= r.words
        /\ r.words = 0 => ~(r.sensitive \/ r.uncertain \/ r.harmful \/ r.defensive)}

\* one check: "passed", "failed", or "raised" where the code divides by
\* len(response_words) = 0 (rag_module.py:326)
RunCheck(name, r, has_sources) ==
    CASE name = "_check_no_hallucination" ->
             IF ~has_sources THEN "passed"
             ELSE IF r.words = 0 THEN "raised"
             ELSE IF 10 * r.in_sources < 3 * r.words THEN "failed"
             ELSE "passed"
      [] name = "_check_no_sensitive_info" ->
             IF r.sensitive THEN "failed" ELSE "passed"
      [] name = "_check_appropriate_confidence" ->
             IF ~has_sources /\ ~r.uncertain THEN "failed" ELSE "passed"
      [] name = "_check_no_harmful_content" ->
             IF r.harmful /\ ~r.defensive THEN "failed" ELSE "passed"

\* the loop `for check in self.safety_checks` from position i on; an exception of a
\* check leaves validate at once
RECURSIVE RunChecks(_, _, _, _)
RunChecks(i, r, has_sources, acc) ==
    IF i > Len(SafetyChecks) THEN acc
    ELSE LET outcome == RunCheck(SafetyChecks[i], r, has_sources)
             ran == [acc EXCEPT !.ran = Append(@, SafetyChecks[i])]
         IN  IF outcome = "raised" THEN [ran EXCEPT !.raised = TRUE]
             ELSE IF outcome = "passed"
             THEN RunChecks(i + 1, r, has_sources,
                            [ran EXCEPT !.checks_passed = Append(@, SafetyChecks[i])])
             ELSE RunChecks(i + 1, r, has_sources,
                            [ran EXCEPT !.checks_failed = Append(@, SafetyChecks[i])])

NoValidation ==
    [raised |-> FALSE, ran |-> <<>>, checks_passed |-> <<>>, checks_failed |-> <<>>,
     is_valid |-> FALSE, confidence |-> 0]

\* ResponseValidator.validate; the confidence is counted in quarters
validate_response(r, has_sources) ==
    LET done == RunChecks(1, r, has_sources, NoValidation)
    IN  IF done.raised THEN done
        ELSE [done EXCEPT !.is_valid = (Len(done.checks_failed) = 0),
                          !.confidence = Len(done.checks_passed)]

Validate ==
    /\ val.pc = "called"
    /\ val' = [val EXCEPT !.pc = "returned",
                          !.result = validate_response(val.response, val.has_sources)]
    /\ UNCHANGED notVal

InitVal ==
    /\ val \in {[pc |-> "called", response |-> r,
                 has_sources |-> IF r.in_sources > 0 THEN TRUE ELSE d,
                 result |-> NoValidation] : r \in Responses, d \in BOOLEAN}

IdleVal ==
    /\ val = [pc |-> "idle",
              response |-> [words |-> 0, in_sources |-> 0, sensitive |-> FALSE,
                            uncertain |-> FALSE, harmful |-> FALSE, defensive |-> FALSE],
              has_sources |-> FALSE, result |-> NoValidation]

NextVal ==
    \/ Validate

(***************************************************************************)
(* The lifecycle of the background sweep (memory_cache.py:44-59, 116-136). *)
(* start() has no await.  stop() cancels the task and is suspended at      *)
(* `await self._cleanup_task` until the task has ended; the callers that   *)
(* wait for one task are woken together when it ends, after the            *)
(* coroutines that were ready before.                                      *)
(***************************************************************************)
notSweeper == <<serverVars, ragVars, healthVars, dbVars, nluVars, nerVars, dbiVars,
                socketVars, valVars, deskVars>>

\* self._cleanup_task = None
NoTask == 0

SweepTasks == 1..MaxSweepTasks

\* InMemoryCache.start
SweepStart ==
    /\ sweeper.starts < MaxSweepTasks
    /\ sweeper' = IF sweeper.cleanup_task = NoTask
                  THEN [sweeper EXCEPT !.cleanup_task = sweeper.created + 1,
                                       !.running = @ \cup {sweeper.created + 1},
                                       !.created = @ + 1,
                                       !.starts = @ + 1]
                  ELSE [sweeper EXCEPT !.starts = @ + 1]
    /\ UNCHANGED notSweeper

\* InMemoryCache.stop up to `await self._cleanup_task`; on a task that has ended
\* already the await returns at once and stop runs to its end
SweepStopBegin(c) ==
    /\ sweeper.waiting[c] = NoTask
    /\ sweeper.cleanup_task # NoTask
    /\ LET t == sweeper.cleanup_task
       IN  sweeper' = IF t \in sweeper.running
                      THEN [sweeper EXCEPT !.cancelled = @ \cup {t}, !.waiting[c] = t]
                      ELSE [sweeper EXCEPT !.cleanup_task = NoTask]
    /\ UNCHANGED notSweeper

\* a cancelled task is scheduled: CancelledError is raised at its await (or before
\* its first step) and the task ends
SweepTaskEnds(t) ==
    /\ t \in sweeper.running \cap sweeper.cancelled
    /\ sweeper' = [sweeper EXCEPT !.running = @ \ {t}]
    /\ UNCHANGED notSweeper

\* the stop() calls that wait for the ended task t resume, one after the other
\* without another coroutine in between: self._cleanup_task = NoTask
SweepStopResumes(t) ==
    /\ t \notin sweeper.running
    /\ \E c \in Callers : sweeper.waiting[c] = t
    /\ sweeper' = [sweeper EXCEPT
                      !.cleanup_task = NoTask,
                      !.waiting = [c \in Callers |-> IF @[c] = t THEN NoTask ELSE @[c]]]
    /\ UNCHANGED notSweeper

\* a running task wakes from its sleep and removes the expired items
SweepPass(t) ==
    /\ t \in sweeper.running \ sweeper.cancelled
    /\ sweeper.stale
    /\ sweeper' = [sweeper EXCEPT !.stale = FALSE]
    /\ UNCHANGED notSweeper

\* the TTL of an item that is never read again runs out
ItemExpires ==
    /\ ~sweeper.stale
    /\ sweeper' = [sweeper EXCEPT !.stale = TRUE]
    /\ UNCHANGED notSweeper

\* InMemoryCache.__init__
NoSweeper ==
    [cleanup_task |-> NoTask, running |-> {}, cancelled |-> {},
     waiting |-> [c \in Callers |-> NoTask], created |-> 0, starts |-> 0, stale |-> FALSE]

InitSweeper ==
    /\ sweeper = NoSweeper

IdleSweeper ==
    /\ sweeper = NoSweeper

NextSweeper ==
    \/ SweepStart
    \/ \E c \in Callers : SweepStopBegin(c)
    \/ \E t \in SweepTasks : SweepTaskEnds(t)
    \/ \E t \in SweepTasks : SweepStopResumes(t)
    \/ \E t \in SweepTasks : SweepPass(t)
    \/ ItemExpires

(***************************************************************************)
(* Agents taking customers (websocket.py:130-150, 180-186, 308-321): two   *)
(* connected agents, customers that ask for a human one after the other.   *)
(***************************************************************************)
notDesk == <<serverVars, ragVars, healthVars, dbVars, nluVars, nerVars, dbiVars,
             socketVars, valVars, sweeperVars>>

\* websocket.py:185  `< 5  # Max 5 customers per agent`
MaxCustomersPerAgent == 5

\* the customers, in the order in which they ask for a human
DeskSessions == <<"s1", "s2", "s3", "s4", "s5", "s6">>

\* ConnectionManager.get_available_agents
get_available_agents(m) ==
    SelectSeq(m.agc, LAMBDA a : Len(SessionsOfAgent(m.sam, a)) < MaxCustomersPerAgent)

\* the next customer's frame ends in request_human_handoff; every agent is reached
DeskHandoff ==
    /\ desk.asked < Len(DeskSessions)
    /\ desk' = [desk EXCEPT !.m = request_human_handoff(@, DeskSessions[desk.asked + 1], {}),
                            !.asked = @ + 1, !.called = FALSE, !.available = <<>>]
    /\ UNCHANGED notDesk

\* agent a sends {action: accept_customer} (websocket.py:308-313)
DeskAccept(a) ==
    /\ desk.m.wq # <<>>
    /\ desk' = [desk EXCEPT !.m = AcceptEffect(@, a), !.called = FALSE,
                            !.available = <<>>]
    /\ UNCHANGED notDesk

\* agent a sends {action: transfer_customer, session_id: s, new_agent_id: b} for an
\* assigned session (websocket.py:315-321)
DeskTransfer(a, s, b) ==
    /\ s \in MapSessions(desk.m.sam)
    /\ MapAgent(desk.m.sam, s) # b
    /\ desk' = [desk EXCEPT !.m = IF b \in SeqToSet(desk.m.agc)
                                  THEN assign_agent_to_session(@, b, s)
                                  ELSE @,
                            !.called = FALSE, !.available = <<>>]
    /\ UNCHANGED notDesk

\* a call of get_available_agents; `called` holds until the next action of an agent
\* or customer
DeskAvailable ==
    /\ ~desk.called
    /\ desk' = [desk EXCEPT !.called = TRUE, !.available = get_available_agents(desk.m)]
    /\ UNCHANGED notDesk

NewDesk(agents) ==
    [m |-> [ac |-> SeqToSet(DeskSessions), agc |-> agents, sam |-> <<>>, wq |-> <<>>,
            pt |-> <<>>],
     asked |-> 0, called |-> FALSE, available |-> <<>>]

InitDesk ==
    /\ desk = NewDesk(<<"a1", "a2">>)

IdleDesk ==
    /\ desk = NewDesk(<<>>)

NextDesk ==
    \/ DeskHandoff
    \/ \E a \in Agents : DeskAccept(a)
    \/ \E a \in Agents, s \in SeqToSet(DeskSessions), b \in Agents : DeskTransfer(a, s, b)
    \/ DeskAvailable

(***************************************************************************)
(* The specifications: one per component, the others idle.                 *)
(***************************************************************************)
IdleRest == IdleRAG /\ IdleHealth /\ IdleDB /\ IdleNLU /\ IdleNER /\ IdleDBI /\ IdleSockets /\ IdleVal /\ IdleSweeper /\ IdleDesk

InitSpecRL == InitRL /\ CacheStart /\ max_size = DefaultMaxSize /\ IdleWS /\ IdleNLP /\ IdleHS /\ IdleAPI /\ IdleGW /\ IdleRest

SpecRL == InitSpecRL /\ [][NextRL]_vars

InitSpecNLP == InitNLP /\ IdleWS /\ IdleCache /\ IdleRL /\ IdleHS /\ IdleAPI /\ IdleGW /\ IdleRest

SpecNLP == InitSpecNLP /\ [][NextNLP]_vars

InitSpecHS == InitHS /\ IdleWS /\ IdleCache /\ IdleRL /\ IdleNLP /\ IdleAPI /\ IdleGW /\ IdleRest

SpecHS == InitSpecHS /\ [][NextHS]_vars

InitSpecCache == InitCache /\ IdleWS /\ IdleRL /\ IdleNLP /\ IdleHS /\ IdleAPI /\ IdleGW /\ IdleRest

SpecCache == InitSpecCache /\ [][NextCache]_vars

InitSpecChat == InitAPI /\ InitNLP /\ IdleWS /\ IdleCache /\ IdleRL /\ IdleHS /\ IdleGW /\ IdleRest

SpecChat == InitSpecChat /\ [][NextChat]_vars

InitSpecSticky == InitAPI /\ InitLongSessions /\ IdleWS /\ IdleCache /\ IdleRL /\ IdleHS /\ IdleGW /\ IdleRest

SpecSticky == InitSpecSticky /\ [][NextChat]_vars

InitSpecRouters == InitAPI /\ IdleNLP /\ IdleWS /\ IdleCache /\ IdleRL /\ IdleHS /\ IdleGW /\ IdleRest

SpecRouters == InitSpecRouters /\ [][NextRouters]_vars

InitSpecGateway == InitGateway /\ InitNLP /\ InitGW /\ IdleCache /\ IdleRL /\ IdleHS /\ IdleAPI /\ IdleRest

SpecGateway == InitSpecGateway /\ [][NextGateway]_vars

IdleServers == IdleWS /\ IdleCache /\ IdleRL /\ IdleNLP /\ IdleHS /\ IdleAPI /\ IdleGW

InitSpecRAG == InitRAG /\ IdleHealth /\ IdleDB /\ IdleNLU /\ IdleNER /\ IdleDBI /\ IdleSockets /\ IdleVal /\ IdleSweeper /\ IdleDesk /\ IdleServers

InitSpecHealth == InitHealth /\ IdleRAG /\ IdleDB /\ IdleNLU /\ IdleNER /\ IdleDBI /\ IdleSockets /\ IdleVal /\ IdleSweeper /\ IdleDesk /\ IdleServers

InitSpecDB == InitDB /\ IdleRAG /\ IdleHealth /\ IdleNLU /\ IdleNER /\ IdleDBI /\ IdleSockets /\ IdleVal /\ IdleSweeper /\ IdleDesk /\ IdleServers

InitSpecNLU == InitNLU /\ IdleRAG /\ IdleHealth /\ IdleDB /\ IdleNER /\ IdleDBI /\ IdleSockets /\ IdleVal /\ IdleSweeper /\ IdleDesk /\ IdleServers

SpecNLU == InitSpecNLU /\ [][NextNLU]_vars

InitSpecDesk == InitDesk /\ IdleRAG /\ IdleHealth /\ IdleDB /\ IdleNLU /\ IdleNER /\ IdleDBI /\ IdleSockets /\ IdleVal /\ IdleSweeper /\ IdleServers

SpecDesk == InitSpecDesk /\ [][NextDesk]_vars

InitSpecSweeper == InitSweeper /\ IdleRAG /\ IdleHealth /\ IdleDB /\ IdleNLU /\ IdleNER /\ IdleDBI /\ IdleSockets /\ IdleVal /\ IdleDesk /\ IdleServers

SpecSweeper == InitSpecSweeper /\ [][NextSweeper]_vars

InitSpecVal == InitVal /\ IdleRAG /\ IdleHealth /\ IdleDB /\ IdleNLU /\ IdleNER /\ IdleDBI /\ IdleSockets /\ IdleSweeper /\ IdleDesk /\ IdleServers

SpecVal == InitSpecVal /\ [][NextVal]_vars

InitSpecSockets == InitSockets /\ IdleRAG /\ IdleHealth /\ IdleDB /\ IdleNLU /\ IdleNER /\ IdleDBI /\ IdleVal /\ IdleSweeper /\ IdleDesk /\ IdleServers

SpecSockets == InitSpecSockets /\ [][NextSockets]_vars

InitSpecDBI == InitDBI /\ IdleRAG /\ IdleHealth /\ IdleDB /\ IdleNLU /\ IdleNER /\ IdleSockets /\ IdleVal /\ IdleSweeper /\ IdleDesk /\ IdleServers

SpecDBI == InitSpecDBI /\ [][NextDBI]_vars

InitSpecNER == InitNER /\ IdleRAG /\ IdleHealth /\ IdleDB /\ IdleNLU /\ IdleDBI /\ IdleSockets /\ IdleVal /\ IdleSweeper /\ IdleDesk /\ IdleServers

SpecNER == InitSpecNER /\ [][NextNER]_vars

SpecDB == InitSpecDB /\ [][NextDB]_vars

SpecHealth == InitSpecHealth /\ [][NextHealth]_vars

SpecRAG == InitSpecRAG /\ [][NextRAG]_vars

InitSpecWS == InitWS /\ IdleCache /\ IdleRL /\ IdleNLP /\ IdleHS /\ IdleAPI /\ IdleGW /\ IdleRest

SpecWS == InitSpecWS /\ [][NextWS]_vars

(***************************************************************************)
(* Claims about the ConnectionManager.                                     *)
(***************************************************************************)

\* C1: every session in session_agent_map has its customer socket in
\* active_connections and its assigned agent in agent_connections.
C1_AssignedImpliesBothRegistered ==
    \A i \in 1..Len(session_agent_map) :
        /\ session_agent_map[i].session \in active_connections
        /\ session_agent_map[i].agent \in SeqToSet(agent_connections)

\* the agents a step deregisters, and the assignments they held
Deregistered == SeqToSet(agent_connections) \ SeqToSet(agent_connections')

HeldByDeregistered == SelectSeq(session_agent_map, LAMBDA e : e.agent \in Deregistered)

\* C2: a step that deregisters an agent holding k sessions removes exactly those k
\* assignments, leaves every other assignment as it was and creates k puts, one per
\* session, behind the puts already pending; a put, when it runs, appends its
\* session at the tail of the waiting queue and nothing else ever removes a
\* pending put.  A disconnect therefore makes the queue grow by exactly k.
C2_DisconnectStep ==
    Deregistered # {} =>
        /\ session_agent_map' = SelectSeq(session_agent_map,
                                          LAMBDA e : e.agent \notin Deregistered)
        /\ Len(put_tasks') = Len(put_tasks) + Len(HeldByDeregistered)
        /\ SubSeq(put_tasks', 1, Len(put_tasks)) = put_tasks
        /\ \A s \in Sessions :
              Cardinality({i \in 1..Len(put_tasks') : put_tasks'[i] = s})
                = Cardinality({i \in 1..Len(put_tasks) : put_tasks[i] = s})
                  + Cardinality({i \in 1..Len(HeldByDeregistered) :
                                    HeldByDeregistered[i].session = s})
        /\ ws_ev'.op = "disconnect_agent" => waiting_queue' = waiting_queue

C2_PutStep ==
    /\ Len(put_tasks') >= Len(put_tasks) - 1
    /\ Len(put_tasks') < Len(put_tasks) =>
          /\ put_tasks' = Tail(put_tasks)
          /\ waiting_queue' = Append(waiting_queue, RequeuedEntry(Head(put_tasks)))
          /\ session_agent_map' = session_agent_map
    /\ Deregistered = {} /\ Len(put_tasks') >= Len(put_tasks) => put_tasks' = put_tasks

C3_AcceptStep ==
    ws_ev'.op = "accept_customer" =>
        IF waiting_queue = <<>>
        THEN UNCHANGED <<active_connections, agent_connections, session_agent_map,
                         waiting_queue, put_tasks, agent_handler, agent_gone>>
        ELSE /\ waiting_queue' = Tail(waiting_queue)
             /\ MapAgent(session_agent_map', Head(waiting_queue).session_id) = ws_ev'.agent
             /\ ws_ev'.agent \in agent_handler'
             /\ agent_connections' = agent_connections

C3_AcceptAssignsOldest == [][C3_AcceptStep]_vars

(***************************************************************************)
(* Claims about the rate limiter and the cache.                            *)
(***************************************************************************)

\* C4 as stated: in one unexpired window the calls for an identifier return true
\* for exactly the first N = max_requests of them and false afterwards, for every N.
C4_FirstNAllowed ==
    \A id \in Identifiers : \A i \in 1..Len(rl_hist[id]) :
        rl_hist[id][i] = (i <= max_requests)

\* C4 amended: the same for every N >= 1 (the call that opens a window is allowed
\* whatever N is).
C4_FirstNAllowedPositiveLimit ==
    max_requests >= 1 => C4_FirstNAllowed

\* C4 witness: limit 3, three calls allowed and the fourth denied
C4_Witness ==
    /\ max_requests = 3
    /\ \E id \in Identifiers : rl_hist[id] = <<TRUE, TRUE, TRUE, FALSE>>

\* C5: the cache never holds more than max_size entries.
C5_SizeBounded == Len(cache) <= max_size

\* C5 witness: a set on a full cache has evicted and the cache is full again
C5_Witness ==
    /\ cache_ev.op = "set"
    /\ cache_ev.evicted # <<>>
    /\ max_size >= 1
    /\ Len(cache) = max_size

\* the age of a cached item at the time of the step
Age(item) == now - item.created_at

\* C6: a get returns a value only for a cached key whose age does not exceed its
\* TTL, and then that item's value; a get of a key whose age exceeds its TTL returns
\* absent and removes the key; get, exists, the sweep and the passing of time never
\* remove an item stored without a TTL.
C6_GetStep ==
    cache_ev'.op = "get" =>
        LET k == cache_ev'.key
        IN  /\ cache_ev'.hit =>
                  /\ k \in CacheKeys(cache)
                  /\ CacheLookup(cache, k).ttl # NoTTL =>
                        Age(CacheLookup(cache, k)) <= CacheLookup(cache, k).ttl
                  /\ cache_ev'.value = CacheLookup(cache, k).value
            /\ ( /\ k \in CacheKeys(cache)
                 /\ CacheLookup(cache, k).ttl # NoTTL
                 /\ Age(CacheLookup(cache, k)) > CacheLookup(cache, k).ttl )
               => ~cache_ev'.hit /\ k \notin CacheKeys(cache')

C6_NoTTLStep ==
    cache_ev'.op \in {"get", "exists", "sweep", "tick"} =>
        \A i \in 1..Len(cache) :
            cache[i].ttl = NoTTL => cache[i] \in SeqToSet(cache')

C6_NoStaleRead == [][C6_GetStep /\ C6_NoTTLStep]_vars

\* C6 witness: a get found its key expired and removed it, while an item without a
\* TTL that is older than the TTL used for the others is still cached
C6_Witness ==
    /\ cache_ev.op = "get"
    /\ ~cache_ev.hit
    /\ cache_ev.expired = {cache_ev.key}
    /\ \E i \in 1..Len(cache) : cache[i].ttl = NoTTL /\ Age(cache[i]) > TTLSeconds

\* the keys a set evicts are the least recently used ones, oldest first
C7_EvictsLeastRecent ==
    cache_ev'.op = "set" =>
        /\ Len(cache_ev'.evicted) <= Len(recency)
        /\ \A i \in 1..Len(cache_ev'.evicted) : cache_ev'.evicted[i] = recency[i]

\* the key a get has just read is not evicted by the set that follows
C7_JustReadSurvives ==
    cache_ev'.op = "set" /\ cache_ev'.after_get # NoKey =>
        cache_ev'.after_get \notin SeqToSet(cache_ev'.evicted)

\* C7 as stated: set evicts the least recently used entry, and an entry just read by
\* get is not the next one evicted.
C7_LruEviction == [][C7_EvictsLeastRecent /\ C7_JustReadSurvives]_vars

\* C7 amended: set evicts the least recently used entry, and an entry just read by
\* get is not the next one evicted when max_size is at least 2 (with max_size 1 the
\* entry just read is the only, hence the least recently used, entry).
C7_LruEvictionCapacityTwo ==
    [][C7_EvictsLeastRecent /\ (max_size >= 2 => C7_JustReadSurvives)]_vars

\* C7 witness: with max_size 2, a set that follows a successful get has evicted the
\* other entry and the entry read is still cached
C7_Witness ==
    /\ cache_ev.op = "set"
    /\ max_size = 2
    /\ cache_ev.after_get # NoKey
    /\ cache_ev.after_get # cache_ev.key
    /\ Len(cache_ev.evicted) = 1
    /\ cache_ev.after_get \in CacheKeys(cache)

(***************************************************************************)
(* Claims about the NLP engine.                                            *)
(***************************************************************************)

\* C8: after n completed process_message calls for a session since it was created or
\* last cleared (n >= 1), its dialogue state exists, turn_count is n and
\* current_intent is the intent recognised for the most recent of those messages.
C8_TurnCountAndIntent ==
    \A s \in Sessions :
        /\ n_done[s] >= 1 => sessions[s].present
        /\ sessions[s].present =>
              /\ sessions[s].turn_count = n_done[s]
              /\ sessions[s].current_intent = last_intent[s]

\* C8 witness: "Hello" and then "I need to reset my password" were processed
C8_Witness ==
    \E s \in Sessions :
        /\ n_done[s] = 2
        /\ sessions[s].present
        /\ sessions[s].turn_count = 2
        /\ sessions[s].current_intent = "password_reset"
        /\ CallsFor(s) = 0

\* C9: should_handoff is true exactly when handoff_requested is set, or the intent is
\* human_handoff, or turn_count > 10, or the intent is unknown and turn_count > 2.
C9_ShouldHandoff ==
    hs_called =>
        hs_result = ( \/ hs_state.handoff_requested
                      \/ hs_state.current_intent = "human_handoff"
                      \/ hs_state.turn_count > 10
                      \/ (hs_state.current_intent = "unknown" /\ hs_state.turn_count > 2) )

\* C9 witness: the state of the test (unknown intent, third turn, no request) hands off
C9_Witness ==
    /\ hs_called
    /\ hs_result
    /\ hs_state.current_intent = "unknown"
    /\ hs_state.turn_count = 3
    /\ ~hs_state.handoff_requested

\* C10: once clear_session(s) has returned, the dialogue state of s is absent until a
\* new process_message call for s begins, also when a call for s was suspended at
\* the time of the clear.
C10_AbsentAfterClear ==
    \A s \in Sessions : cleared[s] => ~get_dialogue_state(s).present

(***************************************************************************)
(* Claims about the HTTP routers.                                          *)
(***************************************************************************)
\* a step in which a POST /message resumes after process_message and replies
SendMessageReplies == nlp_calls # <<>> /\ nlp_calls' = Tail(nlp_calls)

\* C11: a POST /message whose updated dialogue state does not ask for handoff is
\* answered 200 with the generated text and requires_human = false, the generation
\* pipeline having been invoked.
C11_MessageIsGenerated ==
    [][(SendMessageReplies /\ ~should_handoff(sessions'[Head(nlp_calls).session_id]))
          => /\ http_ev'.status = 200
             /\ http_ev'.body = "generated"
             /\ ~http_ev'.requires_human
             /\ http_ev'.rag_invoked]_vars

\* C12: a POST /message whose updated dialogue state asks for handoff is answered
\* with the fixed hand-off message, requires_human = true and the detected intent;
\* the RAG orchestrator is not invoked and no persistence task is scheduled.
C12_HandoffBypassesGeneration ==
    [][(SendMessageReplies /\ should_handoff(sessions'[Head(nlp_calls).session_id]))
          => http_ev' = HttpReply("send_message", Head(nlp_calls).session_id, 200,
                                  HandoffMessage, TRUE, recognize(Head(nlp_calls).text),
                                  FALSE, FALSE)]_vars

\* a third message in a row that matches no intent has been answered with the handoff
C12_Witness ==
    /\ http_ev.op = "send_message"
    /\ http_ev.requires_human
    /\ http_ev.intent = "unknown"
    /\ sessions[http_ev.arg].present
    /\ sessions[http_ev.arg].turn_count = 3
    /\ ~sessions[http_ev.arg].handoff_requested

\* C13: a 4xx raised inside a handler reaches the client as such and changes no
\* state: handoff for a session without dialogue state is 404 and creates none, an
\* absent article or conversation is 404, a rejected import URL or file type is 400.
C13_ClientErrorsKeepStatus ==
    [][/\ (/\ http_ev'.op = "handoff"
           /\ UNCHANGED nlp_calls
           /\ ~sessions[http_ev'.arg].present)
              => (http_ev'.status = 404 /\ UNCHANGED sessions)
       /\ (http_ev'.op = "get_article") => http_ev'.status = 404
       /\ (http_ev'.op = "conversation_details" /\ verify_admin_token(http_ev'.arg) = 200)
              => http_ev'.status = 404
       /\ (http_ev'.op = "import_url" /\ ~UrlAccepted(http_ev'.arg))
              => http_ev'.status = 400
       /\ (http_ev'.op = "import_file" /\ http_ev'.arg \notin AllowedTypes)
              => http_ev'.status = 400]_vars

\* C16: an admin request is answered 401 when its token is badly signed or expired,
\* 403 when the token is valid and its role is not "admin", and is handled (200,
\* but for the conversation lookup, which finds nothing) when the token is valid
\* with role "admin", whatever else the token carries.
C16_AdminAuthorization ==
    http_ev.op \in AdminEndpoints =>
        /\ (~http_ev.arg.signed \/ http_ev.arg.expired) => http_ev.status = 401
        /\ (http_ev.arg.signed /\ ~http_ev.arg.expired /\ http_ev.arg.role # "admin")
              => http_ev.status = 403
        /\ (http_ev.arg.signed /\ ~http_ev.arg.expired /\ http_ev.arg.role = "admin")
              => /\ http_ev.status \notin {401, 403}
                 /\ (http_ev.op # "conversation_details" => http_ev.status = 200)

(***************************************************************************)
(* Claims about the customer frames of the gateway.                        *)
(***************************************************************************)
\* a step in which a handler takes up a frame
FrameArrives == frame_ev'.tick # frame_ev.tick

\* a step in which the AI path of the oldest suspended frame runs to its end
FrameResumes == nlp_calls # <<>> /\ nlp_calls' = Tail(nlp_calls)

\* C14: a frame of a session whose assigned agent is registered is forwarded to that
\* agent and starts no NLU run, changes no dialogue state and writes no transcript;
\* a frame of a session without assignment, or whose assigned agent is not
\* registered, enters the AI path.
C14_FrameRouting ==
    [][FrameArrives =>
         LET s == frame_ev'.session
             a == MapAgent(session_agent_map, s)
         IN  IF s \in MapSessions(session_agent_map) /\ a \in SeqToSet(agent_connections)
             THEN /\ frame_ev'.route = "routed_to_agent"
                  /\ frame_ev'.agent = a
                  /\ UNCHANGED <<sessions, nlp_calls, transcripts>>
             ELSE /\ frame_ev'.route = "process_with_ai"
                  /\ Len(nlp_calls') = Len(nlp_calls) + 1
                  /\ nlp_calls'[Len(nlp_calls')].session_id = s
                  /\ nlp_calls'[Len(nlp_calls')].text.raw = frame_ev'.raw]_vars

\* a frame has been forwarded while the frame of a session whose assigned agent is
\* not registered is on the AI path
C14_Witness ==
    /\ frame_ev.route = "routed_to_agent"
    /\ nlp_calls # <<>>
    /\ Head(nlp_calls).session_id \in MapSessions(session_agent_map)
    /\ transcripts[frame_ev.session] = 0

C17_ProcessResult ==
    rag.pc = "returned" =>
        /\ rag.result.sources = rag.retrieval.documents
        /\ rag.result.retrieval_scores = rag.retrieval.scores
        /\ rag.result.document_count = Len(rag.retrieval.documents)
        /\ rag.safety_mode =>
              /\ rag.trace = <<"refine", "retrieve", "generate", "validate">>
              /\ rag.result.validation_passed = rag.validation.is_valid
              /\ rag.result.response = IF rag.validation.is_valid
                                       THEN generate(rag.retrieval.documents)
                                       ELSE Apology
        /\ ~rag.safety_mode =>
              /\ rag.trace = <<"refine", "retrieve", "generate">>
              /\ rag.result.validation_passed
              /\ rag.result.confidence = NChecks
              /\ rag.result.response = generate(rag.retrieval.documents)

\* a call with two retrieved documents whose validation failed has returned
C17_Witness ==
    /\ rag.pc = "returned"
    /\ rag.safety_mode
    /\ ~rag.validation.is_valid
    /\ Len(rag.retrieval.documents) = 2
    /\ rag.result.response = Apology

(***************************************************************************)
(* Claims about the health endpoints.                                      *)
(***************************************************************************)
\* C18: /ready answers "ready" exactly when every probe reports "healthy"; a probe
\* that fails appears as an entry with an error, and the entries of the other
\* probes carry their own status.
C18_Readiness ==
    health.pc = "replied" =>
        /\ health.reply.status = "ready"
              <=> \A p \in ProbeNames : health.conditions[p] = "answers"
        /\ health.reply.status \in {"ready", "not_ready"}
        /\ \A p \in ProbeNames :
              IF health.conditions[p] = "answers"
              THEN health.reply.checks[p] = [status |-> "healthy", error |-> FALSE]
              ELSE /\ health.reply.checks[p].status \in {"unhealthy", "error"}
                   /\ health.reply.checks[p].error

\* exactly one probe failed and the reply is there
C18_Witness ==
    /\ health.pc = "replied"
    /\ health.conditions["mongodb"] = "raises"
    /\ health.conditions["postgres"] = "answers"
    /\ health.conditions["redis"] = "answers"
    /\ health.reply.status = "not_ready"

(***************************************************************************)
(* Claims about the storage backends.                                      *)
(***************************************************************************)
\* C19: on both backends add_knowledge_article is an upsert keyed by id: after the
\* call exactly one row is stored under the id, its title, content, category, source
\* and metadata are those of the call, and the rows under other ids are unchanged.
C19_AddIsUpsert ==
    [][(db'.last.tick # db.last.tick) =>
          LET id == db'.last.id
              article == db'.last.article
              found == get_knowledge_article(db'.rows, id)
          IN  /\ Cardinality(found) = 1
              /\ \A r \in found :
                    /\ r.title = article.title
                    /\ r.content = article.content
                    /\ r.category = article.category
                    /\ r.source = article.source
                    /\ r.metadata = article.metadata
              /\ \A other \in ArticleIds \ {id} :
                    get_knowledge_article(db'.rows, other)
                        = get_knowledge_article(db.rows, other)]_vars

\* on PostgreSQL, X was added, later added again with other content, and Y is stored
C19_Witness ==
    /\ db.backend = "postgres"
    /\ db.last.id = "X"
    /\ \E r \in db.rows : r.id = "X" /\ r.content = "c2" /\ r.created_at < r.updated_at
    /\ \E r \in db.rows : r.id = "Y"

(***************************************************************************)
(* Claims about the intent recognizer.                                     *)
(***************************************************************************)
\* the number of patterns of the intent at position i that occur in the text
Matched(i, text) == CharScore(CharPatterns[i].patterns, text_lower(text))

\* the fraction of intent i is at least (Geq) or more than (Gt) that of intent j
FractionGeq(i, j, text) ==
    Matched(i, text) * Len(CharPatterns[j].patterns)
        >= Matched(j, text) * Len(CharPatterns[i].patterns)

FractionGt(i, j, text) ==
    Matched(i, text) * Len(CharPatterns[j].patterns)
        > Matched(j, text) * Len(CharPatterns[i].patterns)

\* C20: the recognizer returns the intent with the highest fraction of matched
\* patterns, the first listed among equals, with that fraction as confidence; it
\* returns unknown with confidence 0 exactly when no pattern occurs in the text;
\* a text made only of patterns of one intent yields that intent.
C20_HighestFractionWins ==
    nlu.pc = "returned" =>
        LET text == JoinWords(nlu.words)
            positions == 1..Len(CharPatterns)
        IN  /\ (nlu.result.intent = "unknown") <=> (\A i \in positions : Matched(i, text) = 0)
            /\ (nlu.result.intent = "unknown") => nlu.result.num = 0
            /\ \A i \in positions :
                  (nlu.result.intent = CharPatterns[i].intent) =>
                      /\ Matched(i, text) > 0
                      /\ nlu.result.num = Matched(i, text)
                      /\ nlu.result.den = Len(CharPatterns[i].patterns)
                      /\ \A j \in positions : FractionGeq(i, j, text)
                      /\ \A j \in positions : (j < i) => FractionGt(i, j, text)
            /\ \A i \in positions :
                  (/\ nlu.words # <<>>
                   /\ SeqToSet(nlu.words) \subseteq SeqToSet(CharPatterns[i].patterns))
                      => nlu.result.intent = CharPatterns[i].intent

\* "bill help" has returned: billing_inquiry and create_ticket both score 1/4
C20_Witness ==
    /\ nlu.pc = "returned"
    /\ nlu.words = <<<<"b", "i", "l", "l">>, <<"h", "e", "l", "p">>>>
    /\ nlu.result.intent = "create_ticket"
    /\ nlu.result.num = 1

(***************************************************************************)
(* Claims about the entity extractor.                                      *)
(***************************************************************************)
\* C21: the extractor returns every e-mail match and every ticket-number match of
\* the text, and the returned list is ordered by the position of the matches in
\* the text, also when a ticket number precedes an e-mail address.
C21_EntitiesInTextOrder ==
    ner.pc = "returned" =>
        /\ \A i \in 1..Len(ner.tokens) :
              ner.tokens[i].kind # "word" =>
                  \E k \in 1..Len(ner.entities) :
                      /\ ner.entities[k].type = ner.tokens[i].kind
                      /\ ner.entities[k].value = ner.tokens[i].value
                      /\ ner.entities[k].start_pos = StartPos(ner.tokens, i)
        /\ \A k \in 1..Len(ner.entities) : \A l \in 1..Len(ner.entities) :
              (k < l) => ner.entities[k].start_pos < ner.entities[l].start_pos

(***************************************************************************)
(* Further claims about the rate limiter.                                  *)
(***************************************************************************)
\* the calls of the current window of id that were allowed
AllowedInWindow(id) ==
    Cardinality({i \in 1..Len(rl_hist[id]) : rl_hist[id][i]})

\* the counter of id, if the cache holds one
CounterOf(c, id) ==
    IF LimiterKey(id, window_seconds) \in CacheKeys(c)
    THEN Hit(CacheLookup(c, LimiterKey(id, window_seconds)).value)
    ELSE Miss

\* a step that is a call of get_remaining: it returns max_requests when it finds no
\* unexpired counter, otherwise max_requests minus the number of calls allowed in the
\* window, floored at zero, which is 0 once a call of the window was denied; and it
\* leaves the value of every counter it does not find expired as it was
C22_GetRemainingStep ==
    cache_ev'.op = "get_remaining" =>
        LET id == cache_ev'.key[2]
            unexpired == cache_get(cache, LimiterKey(id, window_seconds), now).result.hit
            left == max_requests - AllowedInWindow(id)
        IN  /\ cache_ev'.hit = unexpired
            /\ ~unexpired => cache_ev'.value = max_requests
            /\ unexpired => cache_ev'.value = (IF left > 0 THEN left ELSE 0)
            /\ (unexpired /\ \E i \in 1..Len(rl_hist[id]) : ~rl_hist[id][i])
                  => cache_ev'.value = 0
            /\ \A other \in Identifiers :
                  \/ CounterOf(cache', other) = CounterOf(cache, other)
                  \/ /\ other = id
                     /\ ~unexpired
                     /\ CounterOf(cache', other) = Miss

\* C22: get_remaining returns N without an unexpired counter, otherwise N minus the
\* allowed calls of the window floored at zero, and never changes a counter value.
C22_GetRemaining == [][C22_GetRemainingStep]_vars

\* C22 witness: limit 3, two calls allowed, get_remaining has returned 1
C22_Witness ==
    /\ cache_ev.op = "get_remaining"
    /\ cache_ev.hit
    /\ max_requests = 3
    /\ cache_ev.value = 1
    /\ rl_hist[cache_ev.key[2]] = <<TRUE, TRUE>>

(***************************************************************************)
(* Claims about initialize().                                              *)
(***************************************************************************)
\* C23: across any calls of initialize() on one instance, also calls that begin
\* before an earlier one has finished, the schema (and on the managed backend the
\* connection pool) is created at most once and, once a call has finished, exactly
\* once.
C23_InitializedOnce ==
    /\ dbi.schemas <= 1
    /\ dbi.pools <= 1
    /\ dbi.initialized => dbi.schemas = 1
    /\ (dbi.initialized /\ dbi.backend = "postgres") => dbi.pools = 1

\* C24 as stated: whatever the interleaving of the callers' is_allowed calls, the
\* calls of one window that returned true never number more than max_requests, and
\* the counter counts every one of them.
C24_NoMoreThanLimit ==
    \A id \in Identifiers :
        /\ AllowedInWindow(id) <= max_requests
        /\ InWindow(id) => CounterOf(cache, id) = Hit(AllowedInWindow(id))

\* C24 amended: the same for max_requests >= 1.
C24_NoMoreThanPositiveLimit ==
    max_requests >= 1 => C24_NoMoreThanLimit

\* C24 witness: limit 2, calls for both identifiers interleaved, one identifier has
\* two calls allowed and two denied and its counter is 2
C24_Witness ==
    /\ max_requests = 2
    /\ rl_hist["id1"] = <<TRUE, TRUE, FALSE, FALSE>>
    /\ rl_hist["id2"] # <<>>
    /\ InWindow("id1")
    /\ CounterOf(cache, "id1") = Hit(2)

\* C30: the window of an identifier is anchored at its first request: its counter
\* is unexpired only while no more than window_seconds have passed since the call
\* that started the window, whatever calls were made in between.
C30_WindowAnchoredAtFirstCall ==
    \A id \in Identifiers :
        (window_start[id] # NoTime /\ InWindow(id))
            => now - window_start[id] <= window_seconds

(***************************************************************************)
(* Claims about the receive loops.                                         *)
(***************************************************************************)
\* C25: within one session the frames are handled one after another: while the
\* pipeline of one frame of a session is running, no other frame of that session
\* is in its pipeline.
C25_OneFrameAtATime ==
    \A s \in Sessions :
        Cardinality({w \in CustomerSockets :
                        /\ sockets.handler[w].session = s
                        /\ sockets.handler[w].pc = "pipeline"}) <= 1

(***************************************************************************)
(* Claims about the response validator.                                    *)
(***************************************************************************)
\* C27: every validation runs all four checks, reports is_valid = true exactly when
\* all four passed, and reports as confidence the number of passed checks divided
\* by four.
C27_ValidatorAggregates ==
    val.pc = "returned" =>
        /\ ~val.result.raised
        /\ val.result.ran = SafetyChecks
        /\ val.result.is_valid = (Len(val.result.checks_passed) = NChecks)
        /\ val.result.confidence = Len(val.result.checks_passed)
        /\ Len(val.result.checks_passed) + Len(val.result.checks_failed) = NChecks

(***************************************************************************)
(* Claims about the sweep task.                                            *)
(***************************************************************************)
\* C26 (lifecycle): however often start() is called at most one sweep task runs,
\* and when every stop() has returned and no start() followed, no sweep task runs.
C26_OneSweepTask ==
    /\ Cardinality(sweeper.running) <= 1
    /\ (/\ sweeper.cleanup_task = NoTask
        /\ \A c \in Callers : sweeper.waiting[c] = NoTask)
           => sweeper.running = {}

(***************************************************************************)
(* Claims about the agents' load.                                          *)
(***************************************************************************)
\* C28: after any accept_customer and transfer_customer actions no agent has more
\* than 5 sessions assigned, and get_available_agents returns exactly the connected
\* agents with fewer than 5.
C28_AtMostFivePerAgent ==
    /\ \A a \in Agents : Len(SessionsOfAgent(desk.m.sam, a)) <= 5
    /\ desk.called =>
           SeqToSet(desk.available) =
               {a \in SeqToSet(desk.m.agc) :
                   Cardinality({i \in 1..Len(desk.m.sam) : desk.m.sam[i].agent = a}) < 5}

(***************************************************************************)
(* Claims about handoff over the life of a chat session.                   *)
(***************************************************************************)
\* the session's state asks for handoff whatever the next message is
Sticky(state) == state.present /\ (state.handoff_requested \/ state.turn_count > 10)

\* C29: once handoff_requested is set or turn_count has exceeded 10, every POST
\* /message that replies while the session still exists is answered with the handoff
\* message, requires_human = true and no generation; a session that exists before
\* and after a step keeps handoff_requested and does not lose turns; and a session
\* stops existing only by DELETE /session/{id}.
C29_HandoffIsSticky ==
    [][/\ (SendMessageReplies /\ Sticky(sessions[Head(nlp_calls).session_id]))
          => /\ http_ev'.op = "send_message"
             /\ http_ev'.arg = Head(nlp_calls).session_id
             /\ http_ev'.status = 200
             /\ http_ev'.body = HandoffMessage
             /\ http_ev'.requires_human
             /\ ~http_ev'.rag_invoked
             /\ Sticky(sessions'[Head(nlp_calls).session_id])
       /\ \A s \in Sessions :
            /\ (sessions[s].present /\ sessions'[s].present)
                  => /\ sessions[s].handoff_requested => sessions'[s].handoff_requested
                     /\ sessions'[s].turn_count >= sessions[s].turn_count
            /\ (sessions[s].present /\ ~sessions'[s].present)
                  => (http_ev'.op = "end_session" /\ http_ev'.arg = s)]_vars

\* a password-reset message, the eleventh turn of a session nobody asked to hand
\* off, has been answered with the handoff
C29_Witness ==
    /\ http_ev.op = "send_message"
    /\ http_ev.requires_human
    /\ http_ev.intent = "password_reset"
    /\ sessions[http_ev.arg].present
    /\ ~sessions[http_ev.arg].handoff_requested
    /\ sessions[http_ev.arg].turn_count = 11

====
